---- MODULE Spec2Model ----
(***************************************************************************)
(* Authentication / session core of the Humanoid-Robots-Book backend:      *)
(* password hashing and constant-time verification (utils/auth.py), JWT    *)
(* issuance and validation (utils/jwt.py), request validation              *)
(* (models/auth.py) and the signup / signin handlers (routers/auth.py)     *)
(* running as concurrent coroutines against one PostgreSQL store.          *)
(***************************************************************************)
EXTENDS Integers, Sequences, FiniteSets, TLC

(***************************************************************************)
(* Bounds of the model                                                     *)
(***************************************************************************)
\* number of HTTP requests that arrive in a run
MaxReq == 3
\* number of requests in progress at the same time
MaxConc == 2
\* number of store faults (a raised asyncpg / connection error) injected
MaxFaults == 1
\* last instant of the wall clock
MaxClock == 4
\* password resets that complete in a run
MaxResets == 2

(***************************************************************************)
(* Program constants                                                       *)
(***************************************************************************)
\* utils/jwt.py:20: the token lifetime, set by the environment variable
\* JWT_EXPIRATION; counted here in ticks of the clock
JWT_EXPIRATION_SECONDS == 2
\* models/auth.py:61 and :106
PasswordMinLength == 8
\* models/auth.py:62
PasswordMaxLength == 100

\* utils/jwt.py:172: the lifetime of a reset token (one hour), in ticks
RESET_EXPIRATION_SECONDS == 1
AUTH_SECRET == "auth-secret-of-at-least-32-characters"
JWT_ALGORITHM == "HS256"

(***************************************************************************)
(* Optional values: None is the empty sequence, a value x is <<x>>.        *)
(***************************************************************************)
None == <<>>
Some(x) == <<x>>
IsNone(o) == o = <<>>
Get(o) == o[1]

(***************************************************************************)
(* Characters and strings. A string the code inspects character by         *)
(* character (email, password) is a sequence of one-character strings.     *)
(***************************************************************************)
UpperCase == {"A", "B", "C", "D", "E", "F", "G", "H", "I", "J", "K", "L", "M",
              "N", "O", "P", "Q", "R", "S", "T", "U", "V", "W", "X", "Y", "Z"}
Digits == {"0", "1", "2", "3", "4", "5", "6", "7", "8", "9"}
\* the character class [!@#$%^&*(),.?":{}|<>]
Symbols == {"!", "@", "#", "$", "%", "^", "&", "*", "(", ")", ",", ".", "?",
            "\"", ":", "{", "}", "|", "<", ">"}

\* str.lower() on one character
LowerChar(c) ==
    CASE c = "A" -> "a" [] c = "B" -> "b" [] c = "C" -> "c" [] c = "D" -> "d"
      [] c = "E" -> "e" [] c = "F" -> "f" [] c = "G" -> "g" [] c = "H" -> "h"
      [] c = "I" -> "i" [] c = "J" -> "j" [] c = "K" -> "k" [] c = "L" -> "l"
      [] c = "M" -> "m" [] c = "N" -> "n" [] c = "O" -> "o" [] c = "P" -> "p"
      [] c = "Q" -> "q" [] c = "R" -> "r" [] c = "S" -> "s" [] c = "T" -> "t"
      [] c = "U" -> "u" [] c = "V" -> "v" [] c = "W" -> "w" [] c = "X" -> "x"
      [] c = "Y" -> "y" [] c = "Z" -> "z" [] OTHER -> c

\* the string as typed
LowerAsTyped(s) == s

\* str.lower()
Lower(s) == [i \in 1..Len(s) |-> LowerChar(s[i])]

\* re.search(r'[class]', s) is not None
ReSearch(class, s) == \E i \in 1..Len(s) : s[i] \in class

(***************************************************************************)
(* utils/auth.py: password hasher                                          *)
(***************************************************************************)
\* bcrypt salts drawn by pwd_context.hash
Salts == {"salt1"}

\* pwd_context.hash with a given salt: a digest is <<scheme, salt, preimage>>;
\* only BcryptVerify looks at the third component.
BcryptHash(salt, plain) == <<"$2b$12$", salt, plain>>

\* pwd_context.verify
BcryptVerify(plain, digest) == digest = BcryptHash(digest[2], plain)

\* the fixed string whose digest FAKE_PASSWORD_HASH is
DecoyPassword == <<"d", "e", "c", "o", "y">>
FAKE_PASSWORD_HASH == BcryptHash("LQv3c1yqBWVHxkd0LHAkCO", DecoyPassword)

\* hash_password: the ValueError of an empty password, else one bcrypt hash
HashPassword(plain_password, salt) ==
    IF plain_password = <<>>
    THEN [raised |-> TRUE, hashed |-> <<>>, bcrypt_calls |-> 0]
    ELSE [raised |-> FALSE, hashed |-> BcryptHash(salt, plain_password),
          bcrypt_calls |-> 1]

\* verify_password: its result and the number of bcrypt verifications it ran
VerifyPassword(plain_password, hashed_password) ==
    IF plain_password = <<>> \/ hashed_password = <<>>
    THEN [is_valid |-> FALSE, bcrypt_calls |-> 0]
    ELSE [is_valid |-> BcryptVerify(plain_password, hashed_password),
          bcrypt_calls |-> 1]

\* constant_time_verify; user_hash is None or Some(digest)
ConstantTimeVerifyTrustsDecoy(email, password, user_hash) ==
    IF IsNone(user_hash)
    THEN VerifyPassword(password, FAKE_PASSWORD_HASH)
    ELSE VerifyPassword(password, Get(user_hash))
ConstantTimeVerify(email, password, user_hash) ==
    IF IsNone(user_hash)
    THEN [is_valid |-> FALSE,
          bcrypt_calls |-> VerifyPassword(password, FAKE_PASSWORD_HASH).bcrypt_calls]
    ELSE VerifyPassword(password, Get(user_hash))

\* check_password_strength: every unmet rule, in the order checked
CheckPasswordStrength(password) ==
    (IF Len(password) < PasswordMinLength
     THEN <<"Password must be at least 8 characters long">> ELSE <<>>)
    \o (IF ~ReSearch(UpperCase, password)
        THEN <<"Password must contain at least one uppercase letter">> ELSE <<>>)
    \o (IF ~ReSearch(Digits, password)
        THEN <<"Password must contain at least one number">> ELSE <<>>)
    \o (IF ~ReSearch(Symbols, password)
        THEN <<"Password must contain at least one symbol (!@#$%^&*...)">> ELSE <<>>)

(***************************************************************************)
(* models/auth.py: request validation                                      *)
(***************************************************************************)
\* SignupRequest.validate_password_strength: the ValueError raised, if any
ValidatePasswordStrengthNoSymbolRule(v) ==
    IF Len(v) < PasswordMinLength
    THEN <<"Password must be at least 8 characters long">>
    ELSE IF ~ReSearch(UpperCase, v)
    THEN <<"Password must contain at least one uppercase letter">>
    ELSE IF ~ReSearch(Digits, v)
    THEN <<"Password must contain at least one number">>
    ELSE <<>>
ValidatePasswordStrength(v) ==
    IF Len(v) < PasswordMinLength
    THEN <<"Password must be at least 8 characters long">>
    ELSE IF ~ReSearch(UpperCase, v)
    THEN <<"Password must contain at least one uppercase letter">>
    ELSE IF ~ReSearch(Digits, v)
    THEN <<"Password must contain at least one number">>
    ELSE IF ~ReSearch(Symbols, v)
    THEN <<"Password must contain at least one symbol (!@#$%^&*...)">>
    ELSE <<>>

\* the password field of SignupRequest: the Field constraints are checked
\* first, the field validator runs only on a value that passed them
SignupPasswordErrors(v) ==
    IF Len(v) < PasswordMinLength
    THEN <<"String should have at least 8 characters">>
    ELSE IF Len(v) > PasswordMaxLength
    THEN <<"String should have at most 100 characters">>
    ELSE ValidatePasswordStrength(v)

\* SignupRequest.validate_coding_languages with Field(min_length=1)
SignupLanguagesErrors(v) ==
    IF Len(v) = 0 THEN <<"List should have at least 1 item">> ELSE <<>>

\* SignupRequest.normalize_email / SigninRequest.normalize_email
NormalizeEmail(v) == Lower(v)

\* the model SignupRequest: the validated value and the errors of the payload
SignupRequest(payload) ==
    [errors |-> SignupPasswordErrors(payload.password)
                    \o SignupLanguagesErrors(payload.coding_languages),
     data |-> [payload EXCEPT !.email = NormalizeEmail(payload.email)]]

\* the model SigninRequest
SigninRequest(payload) ==
    [errors |-> <<>>,
     data |-> [payload EXCEPT !.email = NormalizeEmail(payload.email)]]

(***************************************************************************)
(* json.dumps / json.loads of a list of strings: the text is the sequence  *)
(* of its lexical tokens                                                   *)
(***************************************************************************)
RECURSIVE JsonItems(_)
JsonItems(list) ==
    IF Len(list) = 0 THEN <<>>
    ELSE IF Len(list) = 1 THEN <<list[1]>>
    ELSE <<list[1], ", ">> \o JsonItems(Tail(list))

JsonDumps(list) == <<"[">> \o JsonItems(list) \o <<"]">>

JsonLoadsReversed(text) ==
    LET inner == SubSeq(text, 2, Len(text) - 1)
        n == (Len(inner) + 1) \div 2
    IN  [i \in 1..n |-> inner[2 * (n - i) + 1]]
JsonLoads(text) ==
    LET inner == SubSeq(text, 2, Len(text) - 1)
        n == (Len(inner) + 1) \div 2
    IN  [i \in 1..n |-> inner[2 * i - 1]]

(***************************************************************************)
(* utils/jwt.py: token issuer / validator                                  *)
(***************************************************************************)
\* int(datetime.utcnow().timestamp()): utcnow() is a naive datetime holding
\* the UTC wall clock, and timestamp() reads a naive datetime as local time,
\* so the result is the epoch time minus the host's UTC offset.
UtcNowTimestamp(clock, offset) == clock - offset

\* python-jose's own clock, timegm(datetime.utcnow().utctimetuple())
JoseNow(clock) == clock

HmacSign(key, alg, payload) == [key |-> key, alg |-> alg, msg |-> payload]

\* jwt.encode: a compact token of three segments, header.payload.signature
JwtEncode(payload, key, alg) ==
    [segments |-> 3, alg |-> alg, payload |-> payload, sig |-> HmacSign(key, alg, payload)]

\* jwt.decode: the structure, the signature and algorithm, then the exp claim
\* when the payload has one (expired when exp < now)
JwtDecode(token, key, alg, clock) ==
    IF token.segments # 3
    THEN [ok |-> FALSE, payload |-> None, error |-> "Not enough segments"]
    ELSE IF token.alg # alg \/ token.sig # HmacSign(key, alg, token.payload)
    THEN [ok |-> FALSE, payload |-> None, error |-> "Signature verification failed."]
    ELSE IF "exp" \notin DOMAIN token.payload
    THEN [ok |-> TRUE, payload |-> Some(token.payload), error |-> ""]
    ELSE IF token.payload.exp < JoseNow(clock)
    THEN [ok |-> FALSE, payload |-> None, error |-> "Signature has expired."]
    ELSE [ok |-> TRUE, payload |-> Some(token.payload), error |-> ""]

\* create_access_token
CreateAccessToken(user_id, email, name, gpu_type, ram_capacity, coding_languages, robotics_experience, clock, offset) ==
    JwtEncode([sub |-> user_id,
               iat |-> UtcNowTimestamp(clock, offset),
               exp |-> UtcNowTimestamp(clock, offset) + JWT_EXPIRATION_SECONDS,
               email |-> email, name |-> name,
               gpu_type |-> gpu_type, ram_capacity |-> ram_capacity,
               coding_languages |-> coding_languages,
               robotics_experience |-> robotics_experience],
              AUTH_SECRET, JWT_ALGORITHM)

\* decode_token: the payload, or the JWTError it raises
DecodeToken(token, clock) ==
    LET d == JwtDecode(token, AUTH_SECRET, JWT_ALGORITHM, clock)
    IN  IF d.ok THEN d
        ELSE [d EXCEPT !.error = "Invalid or expired token: " \o d.error]

\* str(user_id) of a UUID
UuidStr(id) == <<"uuid", id>>

\* create_reset_token: sub is the email, type and reset_counter are added
CreateResetToken(email, counter, clock, offset) ==
    JwtEncode([sub |-> email, type |-> "password_reset", reset_counter |-> counter,
               iat |-> UtcNowTimestamp(clock, offset),
               exp |-> UtcNowTimestamp(clock, offset) + RESET_EXPIRATION_SECONDS],
              AUTH_SECRET, JWT_ALGORITHM)

\* a validator of reset tokens without the check of the type claim
DecodeResetTokenAnyType(token, clock) ==
    LET d == JwtDecode(token, AUTH_SECRET, JWT_ALGORITHM, clock)
    IN  IF ~d.ok
        THEN [ok |-> FALSE, payload |-> None, exception |-> "JWTError",
              error |-> "Invalid or expired reset token: " \o d.error]
        ELSE [ok |-> TRUE, payload |-> d.payload, exception |-> "", error |-> ""]

\* decode_reset_token: the payload, the JWTError of jwt.decode, or the
\* ValueError of the type check (which except JWTError lets through)
DecodeResetToken(token, clock) ==
    LET d == JwtDecode(token, AUTH_SECRET, JWT_ALGORITHM, clock)
    IN  IF ~d.ok
        THEN [ok |-> FALSE, payload |-> None, exception |-> "JWTError",
              error |-> "Invalid or expired reset token: " \o d.error]
        ELSE IF "type" \notin DOMAIN Get(d.payload) \/ Get(d.payload).type # "password_reset"
        THEN [ok |-> FALSE, payload |-> None, exception |-> "ValueError",
              error |-> "Invalid token type (expected password_reset)"]
        ELSE [ok |-> TRUE, payload |-> d.payload, exception |-> "", error |-> ""]

\* jwt.get_unverified_claims: the payload of a token of three segments, read
\* without any check of the signature or of exp
GetUnverifiedClaims(token) ==
    IF token.segments # 3 THEN None ELSE Some(token.payload)

\* extract_user_id_from_token: the sub claim as presented, "" (here <<>>) when
\* the token cannot be parsed or has no sub
ExtractUserIdFromToken(token) ==
    LET unverified == GetUnverifiedClaims(token)
    IN  IF IsNone(unverified) \/ "sub" \notin DOMAIN Get(unverified) THEN <<>>
        ELSE Get(unverified).sub

\* is_token_expired: now >= exp on the unverified claims, exp defaulting to 0
IsTokenExpired(token, clock, offset) ==
    LET unverified == GetUnverifiedClaims(token)
    IN  IF IsNone(unverified) THEN TRUE
        ELSE IF "exp" \notin DOMAIN Get(unverified) THEN UtcNowTimestamp(clock, offset) >= 0
        ELSE UtcNowTimestamp(clock, offset) >= Get(unverified).exp

\* get_token_expiration: datetime.fromtimestamp(exp), the local wall clock of
\* exp; None when the token cannot be parsed or exp is absent or 0
GetTokenExpiration(token, offset) ==
    LET unverified == GetUnverifiedClaims(token)
    IN  IF IsNone(unverified) \/ "exp" \notin DOMAIN Get(unverified) THEN None
        ELSE IF Get(unverified).exp = 0 THEN None
        ELSE Some(Get(unverified).exp + offset)


(***************************************************************************)
(* Inputs of the requests                                                  *)
(***************************************************************************)
Emails == { <<"A", "@", "x">>, <<"a", "@", "x">>, <<"b", "@", "x">> }

PwSecure == <<"S", "e", "c", "u", "r", "e", "1", "!">>
\* violates the four rules
PwWeak == <<"w", "e", "a", "k">>
\* violates the digit and the symbol rule
PwNoNumbers == <<"N", "o", "N", "u", "m", "b", "e", "r", "s">>
\* violates the symbol rule only
PwNoSymbol == <<"S", "e", "c", "u", "r", "e", "1", "1">>

SignupPasswords == {PwSecure, PwWeak, PwNoNumbers, PwNoSymbol}
SigninPasswords == {PwSecure, DecoyPassword, <<>>}

ProfileInputs ==
    { [name |-> "John Doe", gpu_type |-> "NVIDIA RTX 4070 Ti",
       ram_capacity |-> "16-32GB", coding_languages |-> <<"Python", "C++">>,
       robotics_experience |-> "Hobbyist (built simple projects)"],
      [name |-> "Jane Roe", gpu_type |-> "NVIDIA RTX 3060",
       ram_capacity |-> "32GB or more", coding_languages |-> <<"C++", "Python">>,
       robotics_experience |-> "No prior experience"] }

SignupPayloads ==
    { [email |-> e, password |-> p, name |-> q.name, gpu_type |-> q.gpu_type,
       ram_capacity |-> q.ram_capacity, coding_languages |-> q.coding_languages,
       robotics_experience |-> q.robotics_experience] :
      e \in Emails, p \in SignupPasswords, q \in ProfileInputs }

SigninPayloads == { [email |-> e, password |-> p] : e \in Emails, p \in SigninPasswords }

\* offsets of the host's local time zone from UTC, in clock ticks
UtcOffsets == {-1, 0, 1}

\* tokens a client can present that the service never issued: a string that
\* is no compact token, a token for the first account signed with another
\* secret, and a token of the service's secret without a sub claim
MalformedToken ==
    [segments |-> 1, alg |-> "", payload |-> [garbage |-> TRUE],
     sig |-> [key |-> "", alg |-> "", msg |-> [garbage |-> TRUE]]]
ForgedToken ==
    JwtEncode([sub |-> UuidStr(1), iat |-> 0, exp |-> MaxClock + JWT_EXPIRATION_SECONDS,
               email |-> <<"a", "@", "x">>, name |-> "John Doe",
               gpu_type |-> "NVIDIA RTX 4080/4090", ram_capacity |-> "16-32GB",
               coding_languages |-> <<"Python", "C++">>,
               robotics_experience |-> "Hobbyist (built simple projects)"],
              "another-secret-of-at-least-32-characters", JWT_ALGORITHM)
SubLessToken ==
    JwtEncode([iat |-> 0, exp |-> MaxClock + JWT_EXPIRATION_SECONDS,
               email |-> <<"a", "@", "x">>, name |-> "John Doe"],
              AUTH_SECRET, JWT_ALGORITHM)
ForeignTokens == {MalformedToken, ForgedToken, SubLessToken}

\* the Authorization header of a request: absent, or a bearer token
Credentials(tokens) == {None} \cup { Some(t) : t \in tokens \cup ForeignTokens }

\* bodies of PUT /me
NoUpdates ==
    [gpu_type |-> None, ram_capacity |-> None, coding_languages |-> None,
     robotics_experience |-> None, learning_style |-> None, difficulty_level |-> None,
     preferred_language |-> None]
ProfileUpdates ==
    { NoUpdates,
      [NoUpdates EXCEPT !.gpu_type = Some("NVIDIA RTX 4080/4090")],
      [NoUpdates EXCEPT !.coding_languages = Some(<<"Rust", "Python">>),
                        !.preferred_language = Some("ur")],
      [NoUpdates EXCEPT !.coding_languages = Some(<<>>)] }

\* the sign-ups and sign-ins of the runs that exercise the profile router
ProfileSignups ==
    LET chosen == { q \in SignupPayloads : q.email = <<"A", "@", "x">>
                                            /\ q.password = PwSecure
                                            /\ q.name = "John Doe" }
    IN  chosen \cup { [q EXCEPT !.coding_languages = <<>>] : q \in chosen }
ProfileSignins ==
    { q \in SigninPayloads : q.email = <<"A", "@", "x">> /\ q.password # <<>> }

(***************************************************************************)
(* State                                                                   *)
(***************************************************************************)
VARIABLES
    users,       \* table users: the committed rows
    profiles,    \* table user_profiles: the committed rows
    activity,    \* table user_activity: the committed rows, in insertion order
    next_id,     \* the next id the store generates for a users row
    req,         \* the requests in progress: handler position, locals and response
    arrived,     \* number of requests that have arrived
    faults,      \* store faults raised so far
    now,         \* the wall clock (UTC)
    utcoffset,   \* the UTC offset of the host's local time zone
    tok,         \* the token model: claims, token, issue time and decode result
    held,        \* the tokens the clients have received and still hold
    reset_counter \* the stored reset counter of the account

vars == <<users, profiles, activity, next_id, req, arrived, faults, now, utcoffset, tok,
          held, reset_counter>>

\* the slots of the requests in progress
Requests == 1..MaxConc

IdleReq ==
    [op |-> "idle", pc |-> "idle", payload |-> None, conn |-> FALSE,
     password_hash |-> None, user_row |-> None, profile_row |-> None,
     is_valid |-> FALSE, in_tx |-> FALSE, tx_log |-> <<>>, response |-> None,
     credentials |-> None, current_user |-> None,
     \* where a bcrypt call of the request is running: "" when none is
     hash_on |-> "",
     \* history of the request, kept for the properties
     existed |-> FALSE, passed_check |-> FALSE, inserted |-> FALSE,
     verify_call |-> None, hashes |-> 0, writes |-> 0, faulted |-> FALSE,
     validated_at |-> 0, seen_user |-> None, seen_profile |-> None,
     subject |-> None, before_profile |-> None, overtaken |-> FALSE,
     peers |-> None, touched |-> FALSE, profile_missing |-> FALSE, inactive |-> FALSE]

IdleTok == [pc |-> "idle", claims |-> None, token |-> None, issued_at |-> 0,
            decoded_at |-> 0, result |-> None, stored_counter |-> 0]

Init ==
    /\ users = {}
    /\ profiles = {}
    /\ activity = <<>>
    /\ next_id = 1
    /\ req = [r \in Requests |-> IdleReq]
    /\ arrived = 0
    /\ faults = 0
    /\ now = 0
    /\ utcoffset \in UtcOffsets
    /\ tok = IdleTok
    /\ held = {}
    /\ reset_counter = 0

(***************************************************************************)
(* Helpers of the handlers                                                 *)
(***************************************************************************)
\* an HTTP response; token and user are None on an error
Response(status, detail, errors, token, user) ==
    [status |-> status, detail |-> detail, errors |-> errors,
     token |-> token, user |-> user]

ErrorResponse(status, detail) == Response(status, detail, <<>>, None, None)

\* a request arrives and takes the first free slot
Arrives(r) ==
    /\ arrived < MaxReq
    /\ arrived' = arrived + 1
    /\ req[r].op = "idle"
    /\ \A o \in Requests : o < r => req[o].op # "idle"

\* a handler that closes its connection before it returns, and not when it
\* raises
FinishClosingOnReturn(q, response) ==
    [q EXCEPT !.pc = "done", !.conn = IF response.status < 400 THEN FALSE ELSE @,
              !.response = Some(response),
              !.password_hash = None, !.user_row = None, !.profile_row = None,
              !.in_tx = FALSE, !.tx_log = <<>>, !.current_user = None]

\* the handler returns or raises: the finally clause closes the connection and
\* the coroutine's frame is dropped
Finish(q, response) ==
    [q EXCEPT !.pc = "done", !.conn = FALSE, !.response = Some(response),
              !.password_hash = None, !.user_row = None, !.profile_row = None,
              !.in_tx = FALSE, !.tx_log = <<>>, !.current_user = None]

\* a store call may raise while the fault budget lasts
MayFault == faults < MaxFaults

StoreUnchanged == UNCHANGED <<users, profiles, activity>>

\* get_db_connection: asyncpg.connect succeeds, or its exception becomes a 503
Connect(r, q, first_pc) ==
    \/ /\ req' = [req EXCEPT ![r] = [q EXCEPT !.pc = first_pc, !.conn = TRUE]]
       /\ UNCHANGED faults
    \/ /\ MayFault
       /\ faults' = faults + 1
       /\ req' = [req EXCEPT ![r] =
              [Finish(q, ErrorResponse(503,
                  "Unable to connect to database. Please try again later."))
               EXCEPT !.faulted = TRUE]]

\* the validated model the signup handler receives
SignupData(r) == SignupRequest(Get(req[r].payload)).data
SigninData(r) == SigninRequest(Get(req[r].payload)).data

\* SELECT id FROM users WHERE LOWER(email) = $1
UsersByEmail(email) == { u \in users : Lower(u.email) = email }
\* ... AND is_active = true
ActiveUsersByEmail(email) == { u \in UsersByEmail(email) : u.is_active }
\* SELECT ... FROM user_profiles p JOIN users u ON p.user_id = u.id WHERE p.user_id = $1
ProfilesOf(user_id) ==
    { p \in profiles : p.user_id = user_id /\ \E u \in users : u.id = user_id }

\* the account a sub claim names is active and has no profile row
ProfileMissing(user_id) ==
    \E u \in users : /\ UuidStr(u.id) = user_id /\ u.is_active
                      /\ \A p \in profiles : p.user_id # u.id
\* the account a sub claim names has its active flag false
Inactive(user_id) == \E u \in users : UuidStr(u.id) = user_id /\ ~u.is_active

\* the except Exception clause of signup / signin
SignupFailure == ErrorResponse(500, "Unable to create account. Please try again later.")
SigninFailure == ErrorResponse(500, "Unable to sign in. Please try again later.")


(***************************************************************************)
(* routers/auth.py: signup                                                 *)
(***************************************************************************)
\* The request is validated into a SignupRequest (422 on a validation error,
\* before the handler runs), then the handler opens its connection.
StartSignup(r, payload) ==
    /\ Arrives(r)
    /\ StoreUnchanged
    /\ UNCHANGED <<next_id, now, utcoffset, tok, held, reset_counter>>
    /\ LET v == SignupRequest(payload)
           q == [IdleReq EXCEPT !.op = "signup", !.payload = Some(payload),
                                !.existed = UsersByEmail(Lower(v.data.email)) # {}]
       IN  IF v.errors # <<>>
           THEN /\ req' = [req EXCEPT ![r] =
                       Finish(q, Response(422, "", v.errors, None, None))]
                /\ UNCHANGED faults
           ELSE Connect(r, q, "signup_check")

\* an exception raised by a store call of the handler: except Exception
\* turns it into the generic 500
SignupRaise(r) ==
    /\ MayFault
    /\ faults' = faults + 1
    /\ req' = [req EXCEPT ![r] = [Finish(req[r], SignupFailure) EXCEPT !.faulted = TRUE]]

\* SELECT id FROM users WHERE LOWER(email) = $1, with signup_data.email.lower()
SignupExistingUserCaseSensitive(r) ==
    { u \in users : u.email = Get(req[r].payload).email }
SignupExistingUser(r) ==
    UsersByEmail(Lower(SignupData(r).email))

\* Step 1: existence check, outside any transaction
SignupCheckEmail(r) ==
    /\ req[r].pc = "signup_check"
    /\ StoreUnchanged
    /\ UNCHANGED <<next_id, now, utcoffset, tok, held, reset_counter, arrived>>
    /\ \/ /\ UNCHANGED faults
          /\ IF SignupExistingUser(r) # {}
             THEN req' = [req EXCEPT ![r] = Finish(req[r], ErrorResponse(409,
                             "Email already registered. Please sign in instead."))]
             ELSE req' = [req EXCEPT ![r].pc = "signup_hash", ![r].passed_check = TRUE]
       \/ SignupRaise(r)

\* Step 2, from the position pc: hash_password returns the digest, or raises
SignupHashFrom(r, pc) ==
    /\ req[r].pc = pc
    /\ StoreUnchanged
    /\ UNCHANGED <<next_id, now, utcoffset, tok, held, reset_counter, arrived, faults>>
    /\ \E salt \in Salts :
          LET h == HashPassword(SignupData(r).password, salt)
          IN  IF h.raised
              THEN req' = [req EXCEPT ![r] = Finish(req[r], SignupFailure)]
              ELSE req' = [req EXCEPT ![r].pc = "signup_insert_user",
                                      ![r].hash_on = "",
                                      ![r].password_hash = Some(h.hashed),
                                      ![r].hashes = @ + h.bcrypt_calls]

\* Step 2: hash_password, awaited on the executor
SignupHash(r) == SignupHashFrom(r, "signup_hash")

\* a call of the bcrypt function made by the coroutine itself: it runs on the
\* thread of the event loop
RunInline(q, pc) == [q EXCEPT !.pc = pc, !.hash_on = "loop"]

\* await loop.run_in_executor(None, fn, ...): fn runs on a thread of the
\* default executor and the coroutine is suspended on its future
RunInExecutor(q, pc) == [q EXCEPT !.pc = pc, !.hash_on = "executor"]

\* the positions of the other requests when the call was handed over
PeersOf(r) == [o \in Requests \ {r} |-> req[o].pc]

\* Step 2, first half: hash_password raises for an empty password, else hands
\* pwd_context.hash to the executor and suspends
SignupHashSubmit(r) ==
    /\ req[r].pc = "signup_hash"
    /\ StoreUnchanged
    /\ UNCHANGED <<next_id, now, utcoffset, tok, held, reset_counter, arrived, faults>>
    /\ IF SignupData(r).password = <<>>
       THEN req' = [req EXCEPT ![r] = Finish(req[r], SignupFailure)]
       ELSE req' = [req EXCEPT ![r] =
                [RunInExecutor(req[r], "signup_hashing") EXCEPT !.peers = Some(PeersOf(r))]]

\* Step 2, second half: the future is done and the coroutine resumes
SignupHashDone(r) == SignupHashFrom(r, "signup_hashing")

\* the unique index on users.email: an INSERT of a key that another open
\* transaction has inserted waits for that transaction to end
InsertWaits(r, email) ==
    \E o \in Requests \ {r} :
        /\ req[o].in_tx
        /\ ~IsNone(req[o].user_row)
        /\ Get(req[o].user_row).email = email

\* the unique index on users.email: a committed row with the key exists
UniqueViolation(email) == \E u \in users : u.email = email

\* the row INSERT INTO users ... RETURNING builds
NewUserRow(id, data, password_hash, clock) ==
    [id |-> id, email |-> Lower(data.email), password_hash |-> password_hash,
     name |-> data.name, created_at |-> clock, is_active |-> TRUE,
     last_login |-> None]

\* the row INSERT INTO user_profiles ... RETURNING builds; the three
\* personalization columns take the defaults of the table
NewProfileRow(user_id, data, clock) ==
    [user_id |-> user_id, created_at |-> clock, updated_at |-> clock,
     gpu_type |-> data.gpu_type,
     ram_capacity |-> data.ram_capacity,
     coding_languages |-> JsonDumps(data.coding_languages),
     robotics_experience |-> data.robotics_experience,
     learning_style |-> "balanced", difficulty_level |-> "intermediate",
     preferred_language |-> "en"]

\* an exception inside async with conn.transaction(): the transaction is
\* rolled back, none of its rows reaches the tables
TxRollbackKeepsUser(r) ==
    /\ users' = users \cup {Get(req[r].user_row)}
    /\ UNCHANGED <<profiles, activity>>
TxRollback(r) ==
    StoreUnchanged

\* leaving async with conn.transaction(): the rows of the transaction reach
\* the tables together
TxCommit(r) ==
    /\ users' = users \cup {Get(req[r].user_row)}
    /\ profiles' = profiles \cup {Get(req[r].profile_row)}
    /\ activity' = activity \o req[r].tx_log

\* Step 3: the transaction begins; INSERT INTO users
SignupInsertUser(r) ==
    /\ req[r].pc = "signup_insert_user"
    /\ ~InsertWaits(r, Lower(SignupData(r).email))
    /\ StoreUnchanged
    /\ UNCHANGED <<now, utcoffset, tok, held, reset_counter, arrived>>
    /\ \/ /\ ~UniqueViolation(Lower(SignupData(r).email))
          /\ UNCHANGED faults
          /\ next_id' = next_id + 1
          /\ req' = [req EXCEPT ![r].pc = "signup_insert_profile",
                                ![r].in_tx = TRUE, ![r].inserted = TRUE,
                                ![r].user_row = Some(NewUserRow(next_id, SignupData(r),
                                                    Get(req[r].password_hash), now))]
       \/ /\ UniqueViolation(Lower(SignupData(r).email))
          /\ UNCHANGED <<faults, next_id>>
          /\ req' = [req EXCEPT ![r] = Finish(req[r], SignupFailure)]
       \/ /\ SignupRaise(r)
          /\ UNCHANGED next_id

\* INSERT INTO user_profiles, inside the transaction
SignupInsertProfile(r) ==
    /\ req[r].pc = "signup_insert_profile"
    /\ UNCHANGED <<next_id, now, utcoffset, tok, held, reset_counter, arrived>>
    /\ \/ /\ StoreUnchanged
          /\ UNCHANGED faults
          /\ req' = [req EXCEPT ![r].pc = "signup_log",
                                ![r].profile_row = Some(NewProfileRow(
                                    Get(req[r].user_row).id, SignupData(r), now))]
       \/ /\ SignupRaise(r)
          /\ TxRollback(r)

\* INSERT INTO user_activity ('signup'), inside the transaction
SignupLog(r) ==
    /\ req[r].pc = "signup_log"
    /\ UNCHANGED <<next_id, now, utcoffset, tok, held, reset_counter, arrived>>
    /\ \/ /\ StoreUnchanged
          /\ UNCHANGED faults
          /\ req' = [req EXCEPT ![r].pc = "signup_commit",
                                ![r].tx_log = <<[user_id |-> Get(req[r].user_row).id,
                                                activity_type |-> "signup"]>>]
       \/ /\ SignupRaise(r)
          /\ TxRollback(r)

\* UserProfile(...) of the response
UserProfile(user_id, user_row, profile_row, coding_languages, created_at, last_login) ==
    [id |-> UuidStr(user_id), email |-> user_row.email, name |-> user_row.name,
     gpu_type |-> profile_row.gpu_type, ram_capacity |-> profile_row.ram_capacity,
     coding_languages |-> coding_languages,
     robotics_experience |-> profile_row.robotics_experience,
     learning_style |-> profile_row.learning_style,
     difficulty_level |-> profile_row.difficulty_level,
     preferred_language |-> profile_row.preferred_language,
     created_at |-> created_at, last_login |-> last_login]

\* Steps 4 and 5: the token and the AuthResponse built from the returned rows
SignupResponse(user_row, profile_row, clock, offset) ==
    LET coding_languages_list == JsonLoads(profile_row.coding_languages)
    IN  Response(201, "", <<>>,
            Some(CreateAccessToken(UuidStr(user_row.id), user_row.email, user_row.name,
                                   profile_row.gpu_type, profile_row.ram_capacity,
                                   coding_languages_list,
                                   profile_row.robotics_experience, clock, offset)),
            Some(UserProfile(user_row.id, user_row, profile_row, coding_languages_list,
                             user_row.created_at, None)))

\* the transaction commits; the handler then builds the response and returns
SignupCommit(r) ==
    /\ req[r].pc = "signup_commit"
    /\ UNCHANGED <<next_id, now, utcoffset, tok, held, reset_counter, arrived>>
    /\ \/ /\ TxCommit(r)
          /\ UNCHANGED faults
          /\ req' = [req EXCEPT ![r] =
                 [Finish(req[r], SignupResponse(Get(req[r].user_row),
                                                Get(req[r].profile_row), now, utcoffset))
                  EXCEPT !.writes = @ + 2 + Len(req[r].tx_log)]]
       \/ /\ SignupRaise(r)
          /\ TxRollback(r)


(***************************************************************************)
(* routers/auth.py: signin                                                 *)
(***************************************************************************)
StartSignin(r, payload) ==
    /\ Arrives(r)
    /\ StoreUnchanged
    /\ UNCHANGED <<next_id, now, utcoffset, tok, held, reset_counter>>
    /\ LET v == SigninRequest(payload)
           q == [IdleReq EXCEPT !.op = "signin", !.payload = Some(payload),
                                !.existed = ActiveUsersByEmail(Lower(v.data.email)) # {},
                                !.inactive = \E u \in UsersByEmail(Lower(v.data.email)) :
                                                 ~u.is_active]
       IN  Connect(r, q, "signin_lookup")

SigninRaise(r) ==
    /\ MayFault
    /\ faults' = faults + 1
    /\ req' = [req EXCEPT ![r] = [Finish(req[r], SigninFailure) EXCEPT !.faulted = TRUE]]

\* Step 1: the active account of the lower-cased email, or None
SigninLookup(r) ==
    /\ req[r].pc = "signin_lookup"
    /\ StoreUnchanged
    /\ UNCHANGED <<next_id, now, utcoffset, tok, held, reset_counter, arrived>>
    /\ \/ /\ UNCHANGED faults
          /\ LET found == ActiveUsersByEmail(Lower(SigninData(r).email))
             IN  IF found = {}
                 THEN req' = [req EXCEPT ![r].pc = "signin_verify", ![r].user_row = None]
                 ELSE \E u \in found :
                        req' = [req EXCEPT ![r].pc = "signin_verify",
                                           ![r].user_row = Some(u)]
       \/ SigninRaise(r)

\* the 401 of Step 3, raised whether or not an account was found
SigninRejectedRevealsAccount(user_id) ==
    IF IsNone(user_id) THEN ErrorResponse(404, "User not found")
    ELSE ErrorResponse(401, "Incorrect password")
SigninRejected(user_id) ==
    ErrorResponse(401, "Invalid email or password")

\* Step 2, from the position pc: constant_time_verify returns; a failed
\* verification of an unknown email raises the 401 at once, that of a known
\* one first logs the attempt
SigninVerifyFrom(r, pc) ==
    /\ req[r].pc = pc
    /\ StoreUnchanged
    /\ UNCHANGED <<next_id, now, utcoffset, tok, held, reset_counter, arrived, faults>>
    /\ LET user_hash == IF IsNone(req[r].user_row) THEN None
                        ELSE Some(Get(req[r].user_row).password_hash)
           v == ConstantTimeVerify(SigninData(r).email, SigninData(r).password, user_hash)
           q == [req[r] EXCEPT !.is_valid = v.is_valid, !.hash_on = "",
                               !.verify_call = Some([password |-> SigninData(r).password,
                                                     user_hash |-> user_hash,
                                                     is_valid |-> v.is_valid,
                                                     bcrypt_calls |-> v.bcrypt_calls])]
       IN  IF v.is_valid
           THEN req' = [req EXCEPT ![r] = [q EXCEPT !.pc = "signin_profile"]]
           ELSE IF IsNone(req[r].user_row)
           THEN req' = [req EXCEPT ![r] = Finish(q, SigninRejected(None))]
           ELSE req' = [req EXCEPT ![r] = [q EXCEPT !.pc = "signin_log_failed"]]

SigninVerify(r) == SigninVerifyFrom(r, "signin_verify")

\* Step 2, first half: verify_password returns False at once for an empty
\* password or digest, else hands pwd_context.verify to the executor and
\* suspends
SigninVerifySubmit(r) ==
    /\ req[r].pc = "signin_verify"
    /\ LET user_hash == IF IsNone(req[r].user_row) THEN FAKE_PASSWORD_HASH
                        ELSE Get(req[r].user_row).password_hash
       IN  IF VerifyPassword(SigninData(r).password, user_hash).bcrypt_calls = 0
           THEN SigninVerifyFrom(r, "signin_verify")
           ELSE /\ StoreUnchanged
                /\ UNCHANGED <<next_id, now, utcoffset, tok, held, reset_counter, arrived,
                               faults>>
                /\ req' = [req EXCEPT ![r] =
                       [RunInExecutor(req[r], "signin_verifying")
                        EXCEPT !.peers = Some(PeersOf(r))]]

\* Step 2, second half: the future is done and the coroutine resumes
SigninVerifyDone(r) == SigninVerifyFrom(r, "signin_verifying")

\* Step 3: INSERT INTO user_activity ('failed_signin'), then the 401
SigninLogFailed(r) ==
    /\ req[r].pc = "signin_log_failed"
    /\ UNCHANGED <<users, profiles, next_id, now, utcoffset, tok, held, reset_counter, arrived>>
    /\ \/ /\ UNCHANGED faults
          /\ activity' = Append(activity, [user_id |-> Get(req[r].user_row).id,
                                          activity_type |-> "failed_signin"])
          /\ req' = [req EXCEPT ![r] =
                 [Finish(req[r], SigninRejected(Some(Get(req[r].user_row).id)))
                  EXCEPT !.writes = @ + 1]]
       \/ /\ SigninRaise(r)
          /\ UNCHANGED activity

\* Step 4: the profile of the account
SigninProfile(r) ==
    /\ req[r].pc = "signin_profile"
    /\ StoreUnchanged
    /\ UNCHANGED <<next_id, now, utcoffset, tok, held, reset_counter, arrived>>
    /\ \/ /\ UNCHANGED faults
          /\ LET found == ProfilesOf(Get(req[r].user_row).id)
             IN  IF found = {}
                 THEN req' = [req EXCEPT ![r] =
                          [Finish(req[r], ErrorResponse(500,
                                 "Account data incomplete. Please contact support."))
                           EXCEPT !.profile_missing = TRUE]]
                 ELSE \E p \in found :
                        req' = [req EXCEPT ![r].pc = "signin_touch",
                                           ![r].profile_row = Some(p)]
       \/ SigninRaise(r)

\* Step 5: UPDATE users SET last_login = $1 WHERE id = $2
SigninTouch(r) ==
    /\ req[r].pc = "signin_touch"
    /\ UNCHANGED <<profiles, activity, next_id, now, utcoffset, tok, held, reset_counter, arrived>>
    /\ \/ /\ UNCHANGED faults
          /\ users' = { IF u.id = Get(req[r].user_row).id
                        THEN [u EXCEPT !.last_login = Some(now)] ELSE u : u \in users }
          /\ req' = [req EXCEPT ![r].pc = "signin_log", ![r].writes = @ + 1,
                                ![r].touched = TRUE]
       \/ /\ SigninRaise(r)
          /\ UNCHANGED users

\* a response built without json.loads of the stored coding_languages
SigninResponseRawLanguages(user_row, profile_row, clock, offset) ==
    Response(200, "", <<>>,
        Some(CreateAccessToken(UuidStr(user_row.id), user_row.email, user_row.name,
                               profile_row.gpu_type, profile_row.ram_capacity,
                               profile_row.coding_languages,
                               profile_row.robotics_experience, clock, offset)),
        Some(UserProfile(user_row.id, user_row, profile_row, profile_row.coding_languages,
                         user_row.created_at, Some(clock))))

\* Steps 7 and 8: the token and the AuthResponse
SigninResponse(user_row, profile_row, clock, offset) ==
    LET coding_languages_list == JsonLoads(profile_row.coding_languages)
    IN  Response(200, "", <<>>,
            Some(CreateAccessToken(UuidStr(user_row.id), user_row.email, user_row.name,
                                   profile_row.gpu_type, profile_row.ram_capacity,
                                   coding_languages_list,
                                   profile_row.robotics_experience, clock, offset)),
            Some(UserProfile(user_row.id, user_row, profile_row, coding_languages_list,
                             user_row.created_at, Some(clock))))

\* Step 6: INSERT INTO user_activity ('signin'); the handler then returns
SigninLog(r) ==
    /\ req[r].pc = "signin_log"
    /\ UNCHANGED <<users, profiles, next_id, now, utcoffset, tok, held, reset_counter, arrived>>
    /\ \/ /\ UNCHANGED faults
          /\ activity' = Append(activity, [user_id |-> Get(req[r].user_row).id,
                                          activity_type |-> "signin"])
          /\ req' = [req EXCEPT ![r] =
                 [Finish(req[r], SigninResponse(Get(req[r].user_row),
                                                Get(req[r].profile_row), now, utcoffset))
                  EXCEPT !.writes = @ + 1]]
       \/ /\ SigninRaise(r)
          /\ UNCHANGED activity

(***************************************************************************)
(* routers/auth.py: signout                                                *)
(***************************************************************************)
\* signout takes no dependency and touches no store: it returns its message
Signout(r) ==
    /\ Arrives(r)
    /\ StoreUnchanged
    /\ UNCHANGED <<next_id, now, utcoffset, tok, held, reset_counter, faults>>
    /\ req' = [req EXCEPT ![r] =
           Finish([IdleReq EXCEPT !.op = "signout"],
                  Response(200, "Signed out successfully", <<>>, None, None))]


(***************************************************************************)
(* dependencies/auth.py                                                    *)
(***************************************************************************)
Unauthorized(detail) == [ok |-> FALSE, payload |-> None, status |-> 401, detail |-> detail]

\* a dependency that takes the claims of the token as presented
GetCurrentUserUnverified(credentials, clock) ==
    IF IsNone(credentials) \/ ExtractUserIdFromToken(Get(credentials)) = <<>>
    THEN Unauthorized("Not authenticated. Please sign in.")
    ELSE [ok |-> TRUE, payload |-> GetUnverifiedClaims(Get(credentials)),
          status |-> 200, detail |-> ""]

\* a dependency that also refuses a token whose profile claims are no longer
\* those of the stored profile
GetCurrentUserRevoking(credentials, clock) ==
    IF IsNone(credentials)
    THEN Unauthorized("Not authenticated. Please sign in.")
    ELSE LET d == DecodeToken(Get(credentials), clock)
         IN  IF ~d.ok THEN Unauthorized("Invalid or expired token: " \o d.error)
             ELSE IF "sub" \notin DOMAIN Get(d.payload)
             THEN Unauthorized("Invalid token: missing user ID")
             ELSE IF \E p \in profiles :
                        /\ UuidStr(p.user_id) = Get(d.payload).sub
                        /\ p.gpu_type # Get(d.payload).gpu_type
             THEN Unauthorized("Invalid or expired token: revoked")
             ELSE [ok |-> TRUE, payload |-> d.payload, status |-> 200, detail |-> ""]

\* get_current_user: the payload decode_token returns, or the 401 raised
GetCurrentUser(credentials, clock) ==
    IF IsNone(credentials)
    THEN Unauthorized("Not authenticated. Please sign in.")
    ELSE LET d == DecodeToken(Get(credentials), clock)
         IN  IF ~d.ok THEN Unauthorized("Invalid or expired token: " \o d.error)
             ELSE IF "sub" \notin DOMAIN Get(d.payload)
             THEN Unauthorized("Invalid token: missing user ID")
             ELSE [ok |-> TRUE, payload |-> d.payload, status |-> 200, detail |-> ""]

\* get_current_user_id
GetCurrentUserId(current_user) == current_user.sub


(***************************************************************************)
(* models/profile.py, routers/profile.py                                   *)
(***************************************************************************)
GPUType == {"None/Integrated Graphics", "NVIDIA RTX 3060", "NVIDIA RTX 4070 Ti",
            "NVIDIA RTX 4080/4090", "AMD Radeon RX 7000 Series", "Other"}
RAMCapacity == {"4-8GB", "8-16GB", "16-32GB", "32GB or more"}
CodingLanguage == {"None", "Python", "C++", "JavaScript/TypeScript", "Java", "C#",
                   "Rust", "Other"}
RoboticsExperience == {"No prior experience", "Hobbyist (built simple projects)",
                       "Student (taking courses)", "Professional (industry experience)"}

\* the fields of ProfileUpdateRequest, each None or a value
UpdateFields == {"gpu_type", "ram_capacity", "coding_languages", "robotics_experience",
                 "learning_style", "difficulty_level", "preferred_language"}

\* a request model whose coding_languages has no min_length
ProfileUpdateRequestNoMinLength(payload) ==
    [errors |-> <<>>, data |-> payload]

\* the model ProfileUpdateRequest: the errors of the payload
ProfileUpdateRequest(payload) ==
    [errors |->
        (IF ~IsNone(payload.gpu_type) /\ Get(payload.gpu_type) \notin GPUType
         THEN <<"gpu_type: Input should be one of the literals">> ELSE <<>>)
        \o (IF ~IsNone(payload.ram_capacity) /\ Get(payload.ram_capacity) \notin RAMCapacity
            THEN <<"ram_capacity: Input should be one of the literals">> ELSE <<>>)
        \o (IF IsNone(payload.coding_languages) THEN <<>>
            ELSE IF Len(Get(payload.coding_languages)) < 1
            THEN <<"List should have at least 1 item">>
            ELSE IF \E i \in DOMAIN Get(payload.coding_languages) :
                        Get(payload.coding_languages)[i] \notin CodingLanguage
            THEN <<"coding_languages: Input should be one of the literals">> ELSE <<>>)
        \o (IF ~IsNone(payload.robotics_experience)
               /\ Get(payload.robotics_experience) \notin RoboticsExperience
            THEN <<"robotics_experience: Input should be one of the literals">> ELSE <<>>),
     data |-> payload]

\* a handler that always has updated_at to set
ProvidedFieldsWithTimestamp(profile_updates) ==
    { f \in UpdateFields : ~IsNone(profile_updates[f]) } \cup {"updated_at"}

\* the fields the handler finds provided (is not None)
ProvidedFields(profile_updates) == { f \in UpdateFields : ~IsNone(profile_updates[f]) }

\* an UPDATE that overwrites every profile column, the ones not provided
\* with the defaults of the table
UpdatedRowResetsOthers(p, profile_updates, clock) ==
    [user_id |-> p.user_id, created_at |-> p.created_at, updated_at |-> clock,
     gpu_type |-> IF IsNone(profile_updates.gpu_type) THEN "Other"
                  ELSE Get(profile_updates.gpu_type),
     ram_capacity |-> IF IsNone(profile_updates.ram_capacity) THEN "4-8GB"
                      ELSE Get(profile_updates.ram_capacity),
     coding_languages |-> IF IsNone(profile_updates.coding_languages)
                          THEN JsonDumps(<<"None">>)
                          ELSE JsonDumps(Get(profile_updates.coding_languages)),
     robotics_experience |-> IF IsNone(profile_updates.robotics_experience)
                             THEN "No prior experience"
                             ELSE Get(profile_updates.robotics_experience),
     learning_style |-> IF IsNone(profile_updates.learning_style) THEN "balanced"
                        ELSE Get(profile_updates.learning_style),
     difficulty_level |-> IF IsNone(profile_updates.difficulty_level) THEN "intermediate"
                          ELSE Get(profile_updates.difficulty_level),
     preferred_language |-> IF IsNone(profile_updates.preferred_language) THEN "en"
                            ELSE Get(profile_updates.preferred_language)]

\* the row UPDATE user_profiles SET <provided fields>, updated_at = now leaves
UpdatedRow(p, profile_updates, clock) ==
    [p EXCEPT
       !.gpu_type = IF IsNone(profile_updates.gpu_type) THEN @
                    ELSE Get(profile_updates.gpu_type),
       !.ram_capacity = IF IsNone(profile_updates.ram_capacity) THEN @
                        ELSE Get(profile_updates.ram_capacity),
       !.coding_languages = IF IsNone(profile_updates.coding_languages) THEN @
                            ELSE JsonDumps(Get(profile_updates.coding_languages)),
       !.robotics_experience = IF IsNone(profile_updates.robotics_experience) THEN @
                               ELSE Get(profile_updates.robotics_experience),
       !.learning_style = IF IsNone(profile_updates.learning_style) THEN @
                          ELSE Get(profile_updates.learning_style),
       !.difficulty_level = IF IsNone(profile_updates.difficulty_level) THEN @
                            ELSE Get(profile_updates.difficulty_level),
       !.preferred_language = IF IsNone(profile_updates.preferred_language) THEN @
                              ELSE Get(profile_updates.preferred_language),
       !.updated_at = clock]

\* the except Exception clauses of get_profile / update_profile
GetProfileFailure == ErrorResponse(500, "Unable to retrieve profile. Please try again later.")
UpdateProfileFailure == ErrorResponse(500, "Unable to update profile. Please try again later.")

ProfileRaise(r, failure) ==
    /\ MayFault
    /\ faults' = faults + 1
    /\ req' = [req EXCEPT ![r] = [Finish(req[r], failure) EXCEPT !.faulted = TRUE]]

\* update_profile call r ends as q; the calls of the same account that ended
\* before it are marked overtaken
FinishUpdate(r, q) ==
    [o \in Requests |->
        IF o = r THEN q
        ELSE IF /\ req[o].pc = "done" /\ req[o].op = "update_profile"
                /\ req[o].subject = req[r].subject
             THEN [req[o] EXCEPT !.overtaken = TRUE]
             ELSE req[o]]

UpdateProfileRaise(r) ==
    /\ MayFault
    /\ faults' = faults + 1
    /\ req' = FinishUpdate(r, [Finish(req[r], UpdateProfileFailure) EXCEPT !.faulted = TRUE])

\* SELECT ... FROM users u JOIN user_profiles p ON u.id = p.user_id
\* WHERE u.id = $1 AND u.is_active = true
JoinedRows(user_id) ==
    { <<u, p>> \in users \X profiles :
        UuidStr(u.id) = user_id /\ u.is_active /\ p.user_id = u.id }

\* a profile view assembled from the claims of the token
GetProfileViewFromClaims(current_user, u, p) ==
    [id |-> current_user.sub, email |-> current_user.email, name |-> current_user.name,
     gpu_type |-> current_user.gpu_type, ram_capacity |-> current_user.ram_capacity,
     coding_languages |-> current_user.coding_languages,
     robotics_experience |-> current_user.robotics_experience,
     learning_style |-> p.learning_style, difficulty_level |-> p.difficulty_level,
     preferred_language |-> p.preferred_language,
     created_at |-> u.created_at, last_login |-> u.last_login]

\* the UserProfile get_profile builds from the joined row it fetched
GetProfileView(current_user, u, p) ==
    UserProfile(u.id, u, p, JsonLoads(p.coding_languages), u.created_at, u.last_login)

\* GET /me: get_current_user runs first (401), then the handler opens its
\* connection
StartGetProfile(r, credentials) ==
    /\ Arrives(r)
    /\ StoreUnchanged
    /\ UNCHANGED <<next_id, now, utcoffset, tok, held, reset_counter>>
    /\ LET a == GetCurrentUser(credentials, now)
           q == [IdleReq EXCEPT !.op = "get_profile", !.credentials = credentials,
                                !.validated_at = now]
       IN  IF ~a.ok
           THEN /\ req' = [req EXCEPT ![r] = Finish(q, ErrorResponse(a.status, a.detail))]
                /\ UNCHANGED faults
           ELSE Connect(r, [q EXCEPT !.current_user = a.payload,
                                     !.subject = Some(GetCurrentUserId(Get(a.payload))),
                                     !.inactive = Inactive(GetCurrentUserId(Get(a.payload)))],
                        "get_read")

\* the joined SELECT by the sub of the token: 404 when no row, else the view
GetProfileRead(r) ==
    /\ req[r].pc = "get_read"
    /\ StoreUnchanged
    /\ UNCHANGED <<next_id, now, utcoffset, tok, held, reset_counter, arrived>>
    /\ \/ /\ UNCHANGED faults
          /\ LET current_user == Get(req[r].current_user)
                 found == JoinedRows(current_user.sub)
             IN  IF found = {}
                 THEN req' = [req EXCEPT ![r] =
                          [Finish(req[r], ErrorResponse(404, "User profile not found"))
                           EXCEPT !.profile_missing = ProfileMissing(current_user.sub)]]
                 ELSE \E row \in found :
                        req' = [req EXCEPT ![r] =
                          [Finish(req[r], Response(200, "", <<>>, None,
                                    Some(GetProfileView(current_user, row[1], row[2]))))
                           EXCEPT !.seen_user = Some(row[1]), !.seen_profile = Some(row[2])]]
       \/ ProfileRaise(r, GetProfileFailure)

\* PUT /me: get_current_user_id runs first (401), then the body is validated
\* (422), then the handler opens its connection
StartUpdateProfile(r, credentials, payload) ==
    /\ Arrives(r)
    /\ StoreUnchanged
    /\ UNCHANGED <<next_id, now, utcoffset, tok, held, reset_counter>>
    /\ LET a == GetCurrentUser(credentials, now)
           v == ProfileUpdateRequest(payload)
           q == [IdleReq EXCEPT !.op = "update_profile", !.credentials = credentials,
                                !.payload = Some(payload), !.validated_at = now]
           qa == [q EXCEPT !.current_user = a.payload,
                           !.subject = Some(GetCurrentUserId(Get(a.payload))),
                           !.inactive = Inactive(GetCurrentUserId(Get(a.payload)))]
       IN  IF ~a.ok
           THEN /\ req' = [req EXCEPT ![r] = Finish(q, ErrorResponse(a.status, a.detail))]
                /\ UNCHANGED faults
           ELSE IF v.errors # <<>>
           THEN /\ req' = [req EXCEPT ![r] =
                       Finish(qa, Response(422, "", v.errors, None, None))]
                /\ UNCHANGED faults
           ELSE Connect(r, qa, "update_write")

\* an UPDATE whose WHERE clause does not restrict the rows to the caller's
ProfilesOfAnyUser(user_id) == profiles

\* the rows UPDATE user_profiles ... WHERE user_id = $n applies to, with the
\* sub of the token as $n
ProfilesByUserId(user_id) == { p \in profiles : UuidStr(p.user_id) = user_id }

\* The handler collects the provided fields (400 when there is none), then
\* UPDATE user_profiles SET ... WHERE user_id = $n RETURNING ...: 404 when no
\* row is returned
UpdateProfileWrite(r) ==
    /\ req[r].pc = "update_write"
    /\ UNCHANGED <<users, activity, next_id, now, utcoffset, tok, held, reset_counter, arrived>>
    /\ \/ /\ UNCHANGED faults
          /\ LET user_id == GetCurrentUserId(Get(req[r].current_user))
                 found == ProfilesByUserId(user_id)
             IN  IF ProvidedFields(Get(req[r].payload)) = {}
                 THEN /\ req' = FinishUpdate(r,
                             Finish(req[r], ErrorResponse(400, "No fields provided for update")))
                      /\ UNCHANGED profiles
                 ELSE IF found = {}
                 THEN /\ req' = FinishUpdate(r,
                             [Finish(req[r], ErrorResponse(404, "User profile not found"))
                              EXCEPT !.profile_missing = ProfileMissing(user_id)])
                      /\ UNCHANGED profiles
                 ELSE \E p \in found :
                        LET row == UpdatedRow(p, Get(req[r].payload), now)
                        IN  /\ profiles' = (profiles \ {p}) \cup {row}
                            /\ req' = [req EXCEPT ![r].pc = "update_user",
                                                  ![r].profile_row = Some(row),
                                                  ![r].before_profile = Some(p),
                                                  ![r].writes = @ + 1]
       \/ /\ ProvidedFields(Get(req[r].payload)) # {}
          /\ UpdateProfileRaise(r)
          /\ UNCHANGED profiles

\* the token and the ProfileUpdateResponse built from the returned profile
\* row and the users row
UpdateProfileResponse(user_id, user_row, profile_row, clock, offset) ==
    LET coding_languages_list == JsonLoads(profile_row.coding_languages)
    IN  Response(200, "", <<>>,
            Some(CreateAccessToken(user_id, user_row.email, user_row.name,
                                   profile_row.gpu_type, profile_row.ram_capacity,
                                   coding_languages_list,
                                   profile_row.robotics_experience, clock, offset)),
            Some(UserProfile(user_row.id, user_row, profile_row, coding_languages_list,
                             user_row.created_at, user_row.last_login)))

\* SELECT ... FROM users WHERE id = $1, then the response; a missing users
\* row makes user_row['email'] raise, which except Exception turns into 500
UpdateProfileRespond(r) ==
    /\ req[r].pc = "update_user"
    /\ StoreUnchanged
    /\ UNCHANGED <<next_id, now, utcoffset, tok, held, reset_counter, arrived>>
    /\ \/ /\ UNCHANGED faults
          /\ LET user_id == GetCurrentUserId(Get(req[r].current_user))
                 found == { u \in users : UuidStr(u.id) = user_id }
             IN  IF found = {}
                 THEN req' = FinishUpdate(r, Finish(req[r], UpdateProfileFailure))
                 ELSE \E u \in found :
                        req' = FinishUpdate(r,
                                 [Finish(req[r], UpdateProfileResponse(user_id, u,
                                           Get(req[r].profile_row), now, utcoffset))
                                  EXCEPT !.seen_user = Some(u)])
       \/ UpdateProfileRaise(r)

(***************************************************************************)
(* The clock, and the system of concurrent requests                        *)
(***************************************************************************)
\* the response is sent and the slot of the request is free again
\* and the client keeps the token of the response
Deliver(r) ==
    /\ req[r].pc = "done"
    /\ req' = [req EXCEPT ![r] = IdleReq]
    /\ held' = IF IsNone(Get(req[r].response).token) THEN held
               ELSE held \cup {Get(Get(req[r].response).token)}
    /\ UNCHANGED <<users, profiles, activity, next_id, arrived, faults, now, utcoffset, tok,
                   reset_counter>>

Next ==
    \/ \E r \in Requests : \E payload \in SignupPayloads : StartSignup(r, payload)
    \/ \E r \in Requests : SignupCheckEmail(r)
    \/ \E r \in Requests : SignupHash(r)
    \/ \E r \in Requests : SignupInsertUser(r)
    \/ \E r \in Requests : SignupInsertProfile(r)
    \/ \E r \in Requests : SignupLog(r)
    \/ \E r \in Requests : SignupCommit(r)
    \/ \E r \in Requests : \E payload \in SigninPayloads : StartSignin(r, payload)
    \/ \E r \in Requests : SigninLookup(r)
    \/ \E r \in Requests : SigninVerify(r)
    \/ \E r \in Requests : SigninLogFailed(r)
    \/ \E r \in Requests : SigninProfile(r)
    \/ \E r \in Requests : SigninTouch(r)
    \/ \E r \in Requests : SigninLog(r)
    \/ \E r \in Requests : Deliver(r)

Spec == Init /\ [][Next]_vars

\* the wall clock advances, between the requests
Tick ==
    /\ now < MaxClock
    /\ \A r \in Requests : req[r].op = "idle"
    /\ now' = now + 1
    /\ UNCHANGED <<users, profiles, activity, next_id, req, arrived, faults, utcoffset, tok, held, reset_counter>>

\* The service with the profile router: an account signs up, signs in and
\* out, and reads and updates its profile with the tokens it holds, while the
\* clock advances.
NextProfile ==
    \/ \E r \in Requests : \E payload \in ProfileSignups : StartSignup(r, payload)
    \/ \E r \in Requests : SignupCheckEmail(r)
    \/ \E r \in Requests : SignupHash(r)
    \/ \E r \in Requests : SignupInsertUser(r)
    \/ \E r \in Requests : SignupInsertProfile(r)
    \/ \E r \in Requests : SignupLog(r)
    \/ \E r \in Requests : SignupCommit(r)
    \/ \E r \in Requests : \E payload \in ProfileSignins : StartSignin(r, payload)
    \/ \E r \in Requests : SigninLookup(r)
    \/ \E r \in Requests : SigninVerify(r)
    \/ \E r \in Requests : SigninLogFailed(r)
    \/ \E r \in Requests : SigninProfile(r)
    \/ \E r \in Requests : SigninTouch(r)
    \/ \E r \in Requests : SigninLog(r)
    \/ \E r \in Requests : Signout(r)
    \/ \E r \in Requests : \E c \in Credentials(held) : StartGetProfile(r, c)
    \/ \E r \in Requests : GetProfileRead(r)
    \/ \E r \in Requests : \E c \in Credentials(held) : \E payload \in ProfileUpdates :
            StartUpdateProfile(r, c, payload)
    \/ \E r \in Requests : UpdateProfileWrite(r)
    \/ \E r \in Requests : UpdateProfileRespond(r)
    \/ \E r \in Requests : Deliver(r)
    \/ Tick

SpecProfile == Init /\ [][NextProfile]_vars


(***************************************************************************)
(* The token issuer / validator on its own: a token is issued for a claims *)
(* bundle at some instant and decoded at later instants.                   *)
(***************************************************************************)
TokClaims ==
    { [user_id |-> UuidStr(id), email |-> Lower(e), name |-> q.name,
       gpu_type |-> q.gpu_type, ram_capacity |-> q.ram_capacity,
       coding_languages |-> q.coding_languages,
       robotics_experience |-> q.robotics_experience] :
      id \in {1, 2}, e \in Emails, q \in ProfileInputs }

TokIssue(c) ==
    /\ tok.pc = "idle"
    /\ tok' = [tok EXCEPT !.pc = "issued", !.claims = Some(c), !.issued_at = now,
                 !.token = Some(CreateAccessToken(c.user_id, c.email, c.name, c.gpu_type,
                                   c.ram_capacity, c.coding_languages,
                                   c.robotics_experience, now, utcoffset))]
    /\ UNCHANGED <<users, profiles, activity, next_id, req, arrived, faults, now, utcoffset, held, reset_counter>>

TokDecode ==
    /\ tok.pc \in {"issued", "decoded"}
    /\ tok' = [tok EXCEPT !.pc = "decoded", !.decoded_at = now,
                          !.result = Some(DecodeToken(Get(tok.token), now))]
    /\ UNCHANGED <<users, profiles, activity, next_id, req, arrived, faults, now, utcoffset, held, reset_counter>>

NextTok ==
    \/ \E c \in TokClaims : TokIssue(c)
    \/ TokDecode
    \/ Tick

SpecTok == Init /\ [][NextTok]_vars


(***************************************************************************)
(* Reset tokens: a reset token is issued for an account with its stored    *)
(* reset counter, the counter advances when a reset completes, and tokens  *)
(* are presented to the validator of reset tokens.                         *)
(***************************************************************************)
\* create_reset_token(email, reset_counter) for the account's current counter
TokIssueReset(email) ==
    /\ tok.pc = "idle"
    /\ tok' = [tok EXCEPT !.pc = "issued", !.issued_at = now,
                 !.claims = Some([email |-> email, reset_counter |-> reset_counter]),
                 !.token = Some(CreateResetToken(email, reset_counter, now, utcoffset))]
    /\ UNCHANGED <<users, profiles, activity, next_id, req, arrived, faults, now, utcoffset,
                   held, reset_counter>>

\* a reset of the account's password completes: its reset counter advances
ResetAdvance ==
    /\ reset_counter < MaxResets
    /\ reset_counter' = reset_counter + 1
    /\ UNCHANGED <<users, profiles, activity, next_id, req, arrived, faults, now, utcoffset,
                   tok, held>>

\* decode_reset_token(token) of the token presented
TokDecodeReset ==
    /\ tok.pc \in {"issued", "reset_decoded"}
    /\ tok' = [tok EXCEPT !.pc = "reset_decoded", !.decoded_at = now,
                          !.stored_counter = reset_counter,
                          !.result = Some(DecodeResetToken(Get(tok.token), now))]
    /\ UNCHANGED <<users, profiles, activity, next_id, req, arrived, faults, now, utcoffset,
                   held, reset_counter>>

\* get_current_user with the token presented as the bearer credentials
TokAuthenticate ==
    /\ tok.pc \in {"issued", "authenticated"}
    /\ tok' = [tok EXCEPT !.pc = "authenticated", !.decoded_at = now,
                          !.result = Some(GetCurrentUser(tok.token, now))]
    /\ UNCHANGED <<users, profiles, activity, next_id, req, arrived, faults, now, utcoffset,
                   held, reset_counter>>

NextReset ==
    \/ \E e \in Emails : TokIssueReset(Lower(e))
    \/ \E c \in TokClaims : TokIssue(c)
    \/ ResetAdvance
    \/ TokDecodeReset
    \/ TokDecode
    \/ TokAuthenticate
    \/ Tick

SpecReset == Init /\ [][NextReset]_vars


(***************************************************************************)
(* The event loop and the executor: the handlers are coroutines of one     *)
(* event loop, which runs one coroutine between two awaits at a time; the  *)
(* bcrypt calls of hash_password and verify_password are handed to the     *)
(* default executor.                                                       *)
(***************************************************************************)
PoolSignups ==
    { q \in SignupPayloads : q.email = <<"a", "@", "x">> /\ q.password = PwSecure
                              /\ q.name = "John Doe" }
PoolSignins == { q \in SigninPayloads : q.email = <<"a", "@", "x">> }

\* the thread of the event loop is free to run a step of request r: no other
\* request is running a bcrypt call on it
LoopRuns(r) == \A o \in Requests \ {r} : req[o].hash_on # "loop"

\* the step the coroutine of request r takes when the event loop resumes it
PoolStep(r) ==
    /\ LoopRuns(r)
    /\ \/ SignupCheckEmail(r)
       \/ SignupHashSubmit(r)
       \/ SignupHashDone(r)
       \/ SignupInsertUser(r)
       \/ SignupInsertProfile(r)
       \/ SignupLog(r)
       \/ SignupCommit(r)
       \/ SigninLookup(r)
       \/ SigninVerifySubmit(r)
       \/ SigninVerifyDone(r)
       \/ SigninLogFailed(r)
       \/ SigninProfile(r)
       \/ SigninTouch(r)
       \/ SigninLog(r)

\* a request is accepted and its handler started by the event loop
PoolStart(r) ==
    /\ LoopRuns(r)
    /\ \/ \E payload \in PoolSignups : StartSignup(r, payload)
       \/ \E payload \in PoolSignins : StartSignin(r, payload)

NextPool ==
    \/ \E r \in Requests : \E payload \in PoolSignups : LoopRuns(r) /\ StartSignup(r, payload)
    \/ \E r \in Requests : LoopRuns(r) /\ SignupCheckEmail(r)
    \/ \E r \in Requests : LoopRuns(r) /\ SignupHashSubmit(r)
    \/ \E r \in Requests : LoopRuns(r) /\ SignupHashDone(r)
    \/ \E r \in Requests : LoopRuns(r) /\ SignupInsertUser(r)
    \/ \E r \in Requests : LoopRuns(r) /\ SignupInsertProfile(r)
    \/ \E r \in Requests : LoopRuns(r) /\ SignupLog(r)
    \/ \E r \in Requests : LoopRuns(r) /\ SignupCommit(r)
    \/ \E r \in Requests : \E payload \in PoolSignins : LoopRuns(r) /\ StartSignin(r, payload)
    \/ \E r \in Requests : LoopRuns(r) /\ SigninLookup(r)
    \/ \E r \in Requests : LoopRuns(r) /\ SigninVerifySubmit(r)
    \/ \E r \in Requests : LoopRuns(r) /\ SigninVerifyDone(r)
    \/ \E r \in Requests : LoopRuns(r) /\ SigninLogFailed(r)
    \/ \E r \in Requests : LoopRuns(r) /\ SigninProfile(r)
    \/ \E r \in Requests : LoopRuns(r) /\ SigninTouch(r)
    \/ \E r \in Requests : LoopRuns(r) /\ SigninLog(r)
    \/ \E r \in Requests : Deliver(r)

SpecPool == Init /\ [][NextPool]_vars


(***************************************************************************)
(* An account under operation: besides the requests of its owner, the      *)
(* store is changed from outside the service: an account is deactivated,   *)
(* a profile row is lost.                                                  *)
(***************************************************************************)
\* the active flag of an account is set to false
Deactivate(u) ==
    /\ u \in users /\ u.is_active
    /\ users' = (users \ {u}) \cup {[u EXCEPT !.is_active = FALSE]}
    /\ UNCHANGED <<profiles, activity, next_id, req, arrived, faults, now, utcoffset, tok,
                   held, reset_counter>>

\* the profile row of an account is missing from the store
ProfileLost(p) ==
    /\ p \in profiles
    /\ profiles' = profiles \ {p}
    /\ UNCHANGED <<users, activity, next_id, req, arrived, faults, now, utcoffset, tok,
                   held, reset_counter>>

AccountSignins == { q \in PoolSignins : q.password # <<>> }
AccountUpdates == { [NoUpdates EXCEPT !.gpu_type = Some("NVIDIA RTX 4080/4090")] }
\* the Authorization header carries a token the client holds
HeldCredentials == { Some(t) : t \in held }

NextAccount ==
    \/ \E r \in Requests : \E payload \in PoolSignups : StartSignup(r, payload)
    \/ \E r \in Requests : SignupCheckEmail(r)
    \/ \E r \in Requests : SignupHash(r)
    \/ \E r \in Requests : SignupInsertUser(r)
    \/ \E r \in Requests : SignupInsertProfile(r)
    \/ \E r \in Requests : SignupLog(r)
    \/ \E r \in Requests : SignupCommit(r)
    \/ \E r \in Requests : \E payload \in AccountSignins : StartSignin(r, payload)
    \/ \E r \in Requests : SigninLookup(r)
    \/ \E r \in Requests : SigninVerify(r)
    \/ \E r \in Requests : SigninLogFailed(r)
    \/ \E r \in Requests : SigninProfile(r)
    \/ \E r \in Requests : SigninTouch(r)
    \/ \E r \in Requests : SigninLog(r)
    \/ \E r \in Requests : \E c \in HeldCredentials : StartGetProfile(r, c)
    \/ \E r \in Requests : GetProfileRead(r)
    \/ \E r \in Requests : \E c \in HeldCredentials : \E payload \in AccountUpdates :
            StartUpdateProfile(r, c, payload)
    \/ \E r \in Requests : UpdateProfileWrite(r)
    \/ \E r \in Requests : UpdateProfileRespond(r)
    \/ \E r \in Requests : Deliver(r)
    \/ \E u \in users : Deactivate(u)
    \/ \E p \in profiles : ProfileLost(p)

SpecAccount == Init /\ [][NextAccount]_vars


(***************************************************************************)
(* Two accounts: each signs up and updates its profile with the token it   *)
(* holds.                                                                  *)
(***************************************************************************)
TwoSignups ==
    { q \in SignupPayloads :
        /\ q.password = PwSecure
        /\ \/ q.email = <<"a", "@", "x">> /\ q.name = "John Doe"
           \/ q.email = <<"b", "@", "x">> /\ q.name = "Jane Roe" }
TwoUpdates ==
    { [NoUpdates EXCEPT !.gpu_type = Some("NVIDIA RTX 4080/4090")],
      [NoUpdates EXCEPT !.coding_languages = Some(<<"Rust", "Python">>),
                        !.preferred_language = Some("ur")] }

NextTwo ==
    \/ \E r \in Requests : \E payload \in TwoSignups : StartSignup(r, payload)
    \/ \E r \in Requests : SignupCheckEmail(r)
    \/ \E r \in Requests : SignupHash(r)
    \/ \E r \in Requests : SignupInsertUser(r)
    \/ \E r \in Requests : SignupInsertProfile(r)
    \/ \E r \in Requests : SignupLog(r)
    \/ \E r \in Requests : SignupCommit(r)
    \/ \E r \in Requests : \E c \in HeldCredentials : \E payload \in TwoUpdates :
            StartUpdateProfile(r, c, payload)
    \/ \E r \in Requests : UpdateProfileWrite(r)
    \/ \E r \in Requests : UpdateProfileRespond(r)
    \/ \E r \in Requests : Deliver(r)

SpecTwo == Init /\ [][NextTwo]_vars


(***************************************************************************)
(* Properties                                                              *)
(***************************************************************************)
Done(r) == req[r].pc = "done"
Resp(r) == Get(req[r].response)
Payload(r) == Get(req[r].payload)
\* the preimage of a digest: the password it was computed from
Preimage(digest) == digest[3]

\* C1: every call of constant_time_verify performs exactly one bcrypt
\* verification, for every password (the empty one included) and whether
\* user_hash is a stored digest or None.
C1_ExactlyOneVerify ==
    \A r \in Requests :
        ~IsNone(req[r].verify_call) => Get(req[r].verify_call).bcrypt_calls = 1

\* C2: constant_time_verify returns false whenever user_hash is None, for
\* every password, the decoy's own included; with a stored digest it returns
\* true exactly when the password is the one the digest was computed from.
C2_VerifyResult ==
    \A r \in Requests :
        ~IsNone(req[r].verify_call) =>
            LET c == Get(req[r].verify_call)
            IN  IF IsNone(c.user_hash)
                THEN c.is_valid = FALSE
                ELSE c.is_valid = (Preimage(Get(c.user_hash)) = c.password)

\* C2 witness: a call without an account whose password is the decoy's, and a
\* call with a stored digest that verified
C2_Witness ==
    \E r1, r2 \in Requests :
        /\ ~IsNone(req[r1].verify_call)
        /\ ~IsNone(req[r2].verify_call)
        /\ IsNone(Get(req[r1].verify_call).user_hash)
        /\ Get(req[r1].verify_call).password = DecoyPassword
        /\ ~IsNone(Get(req[r2].verify_call).user_hash)
        /\ Get(req[r2].verify_call).is_valid

\* a signin whose credentials were rejected and on which no store call raised
SigninRejectedAt(r) ==
    /\ Done(r)
    /\ req[r].op = "signin"
    /\ ~req[r].faulted
    /\ ~IsNone(req[r].verify_call)
    /\ ~Get(req[r].verify_call).is_valid

ViolatedRules(p) ==
    (IF Len(p) < 8 THEN {"length"} ELSE {})
    \cup (IF \A i \in 1..Len(p) : p[i] \notin UpperCase THEN {"uppercase"} ELSE {})
    \cup (IF \A i \in 1..Len(p) : p[i] \notin Digits THEN {"number"} ELSE {})
    \cup (IF \A i \in 1..Len(p) : p[i] \notin Symbols THEN {"symbol"} ELSE {})

\* the rule a validation message names
RuleOfMessage(msg) ==
    CASE msg \in {"Password must be at least 8 characters long",
                  "String should have at least 8 characters"} -> "length"
      [] msg = "Password must contain at least one uppercase letter" -> "uppercase"
      [] msg = "Password must contain at least one number" -> "number"
      [] msg = "Password must contain at least one symbol (!@#$%^&*...)" -> "symbol"
      [] OTHER -> "other"

RulesNamed(errors) == { RuleOfMessage(errors[i]) : i \in 1..Len(errors) }

\* C4: of two signups for the same normalized email that both arrive while no
\* account has it, and on which no store call raises, at most one passes the
\* existence check; when both have finished, one has created the account
\* (201) and the other has failed with the conflict error (409).
C4_CheckAndInsertAtomic ==
    \A r1, r2 \in Requests :
        ( /\ r1 # r2
          /\ req[r1].op = "signup" /\ req[r2].op = "signup"
          /\ Lower(Payload(r1).email) = Lower(Payload(r2).email)
          /\ ~req[r1].existed /\ ~req[r2].existed
          /\ ~req[r1].faulted /\ ~req[r2].faulted )
        => /\ ~(req[r1].passed_check /\ req[r2].passed_check)
           /\ ( Done(r1) /\ Done(r2) /\ Resp(r1).status # 422 /\ Resp(r2).status # 422
                => {Resp(r1).status, Resp(r2).status} = {201, 409} )

\* C5: a signup that arrives when an account with the same email up to letter
\* case has been created computes no password hash and writes no row; it
\* never succeeds, and with a valid payload and no store fault it ends with
\* the conflict error 409.
C5_LaterSignupConflicts ==
    \A r \in Requests :
        req[r].op = "signup" /\ req[r].existed =>
            /\ req[r].hashes = 0 /\ req[r].writes = 0
            /\ ~req[r].passed_check /\ ~req[r].inserted
            /\ Done(r) =>
                /\ Resp(r).status # 201
                /\ ( Resp(r).status # 422 /\ ~req[r].faulted =>
                        /\ Resp(r).status = 409
                        /\ Resp(r).detail = "Email already registered. Please sign in instead." )

\* C5 witness: 'A@x' is refused with 409 after the account 'a@x' was created
C5_Witness ==
    \E r \in Requests :
        /\ Done(r) /\ req[r].op = "signup" /\ req[r].existed
        /\ Payload(r).email # Lower(Payload(r).email)
        /\ \E u \in users : u.email = Lower(Payload(r).email)
        /\ Resp(r).status = 409

\* C6: in every state of the store each account has exactly one profile and
\* each profile belongs to exactly one account.
C6_OneProfilePerAccount ==
    /\ \A u \in users : Cardinality({ p \in profiles : p.user_id = u.id }) = 1
    /\ \A p \in profiles : Cardinality({ u \in users : u.id = p.user_id }) = 1

\* C6 witness: a signup has failed after its account insert while another
\* signup's account and profile are in the store
C6_Witness ==
    /\ users # {}
    /\ \E r \in Requests :
          /\ Done(r) /\ req[r].op = "signup"
          /\ req[r].inserted /\ req[r].faulted
          /\ Resp(r).status = 500

\* C7: the validation error of a signup lists every strength rule that the
\* password violates.
C7_ListsEveryViolatedRule ==
    \A r \in Requests :
        Done(r) /\ req[r].op = "signup" /\ Resp(r).status = 422 =>
            ViolatedRules(Payload(r).password) \subseteq RulesNamed(Resp(r).errors)

\* C8: a signup whose password violates a strength rule ends at once with a
\* validation error (422) that names a rule the password violates; it never
\* reaches the existence check, computes no hash and writes no row.
C8_WeakPasswordRejected ==
    \A r \in Requests :
        req[r].op = "signup" /\ ViolatedRules(Payload(r).password) # {} =>
            /\ Done(r)
            /\ Resp(r).status = 422
            /\ RulesNamed(Resp(r).errors) \cap ViolatedRules(Payload(r).password) # {}
            /\ req[r].hashes = 0 /\ req[r].writes = 0
            /\ ~req[r].passed_check /\ ~req[r].inserted

\* C8 witness: a password that lacks only a symbol is refused
C8_Witness ==
    \E r \in Requests :
        /\ Done(r) /\ req[r].op = "signup"
        /\ ViolatedRules(Payload(r).password) = {"symbol"}
        /\ Resp(r).status = 422
        /\ RulesNamed(Resp(r).errors) = {"symbol"}

\* C9: the token and the user profile a successful signup returns carry the
\* submitted gpu_type, ram_capacity, coding_languages (same order),
\* robotics_experience and name, the lower-cased submitted email, and the id
\* of the account the signup created.
C9_SignupRoundTrip ==
    \A r \in Requests :
        Done(r) /\ req[r].op = "signup" /\ Resp(r).status = 201 =>
            LET p == Payload(r)
                t == Get(Resp(r).token).payload
                u == Get(Resp(r).user)
            IN  /\ t.gpu_type = p.gpu_type /\ u.gpu_type = p.gpu_type
                /\ t.ram_capacity = p.ram_capacity /\ u.ram_capacity = p.ram_capacity
                /\ t.coding_languages = p.coding_languages
                /\ u.coding_languages = p.coding_languages
                /\ t.robotics_experience = p.robotics_experience
                /\ u.robotics_experience = p.robotics_experience
                /\ t.name = p.name /\ u.name = p.name
                /\ t.email = Lower(p.email) /\ u.email = Lower(p.email)
                /\ u.id = t.sub
                /\ \E a \in users :
                      /\ a.email = Lower(p.email)
                      /\ t.sub = <<"uuid", a.id>>
                      /\ a.name = p.name

\* C9 witness: a successful signup with an upper-case email and two languages
C9_Witness ==
    \E r \in Requests :
        /\ Done(r) /\ req[r].op = "signup" /\ Resp(r).status = 201
        /\ Payload(r).email # Lower(Payload(r).email)
        /\ Payload(r).coding_languages = <<"C++", "Python">>
        /\ Get(Resp(r).token).payload.coding_languages = <<"C++", "Python">>

\* C10: decode_token of a token returns the claims it was issued for when it
\* is called before issued-at + TTL, and fails when it is called after.
C10_RoundTripUntilExpiry ==
    tok.pc = "decoded" =>
        LET res == Get(tok.result)
            c == Get(tok.claims)
            expiry == tok.issued_at + JWT_EXPIRATION_SECONDS
        IN  /\ tok.decoded_at < expiry =>
                /\ res.ok
                /\ Get(res.payload).sub = c.user_id
                /\ Get(res.payload).email = c.email
                /\ Get(res.payload).name = c.name
                /\ Get(res.payload).gpu_type = c.gpu_type
                /\ Get(res.payload).ram_capacity = c.ram_capacity
                /\ Get(res.payload).coding_languages = c.coding_languages
                /\ Get(res.payload).robotics_experience = c.robotics_experience
            /\ tok.decoded_at > expiry => ~res.ok

\* the token presented to the validator of reset tokens is correctly signed
\* and unexpired
TokVerifies == JwtDecode(Get(tok.token), AUTH_SECRET, JWT_ALGORITHM, tok.decoded_at).ok

\* C13: the validator of reset tokens rejects a reset token whose
\* reset_counter differs from the account's stored reset counter at the time
\* of the call.
C13_SupersededResetRejected ==
    ( /\ tok.pc = "reset_decoded"
      /\ "reset_counter" \in DOMAIN Get(tok.token).payload
      /\ Get(tok.token).payload.reset_counter # tok.stored_counter )
    => ~Get(tok.result).ok

\* C14: decode_reset_token returns no payload for a correctly signed,
\* unexpired token whose type claim is absent or not 'password_reset' (an
\* access token of create_access_token): it raises an error.
C14_ResetTypeChecked ==
    ( /\ tok.pc = "reset_decoded"
      /\ ( "type" \notin DOMAIN Get(tok.token).payload
           \/ Get(tok.token).payload.type # "password_reset" ) )
    => /\ ~Get(tok.result).ok
       /\ IsNone(Get(tok.result).payload)
       /\ Get(tok.result).exception \in {"JWTError", "ValueError"}

\* an unexpired access token was presented to decode_reset_token, which
\* raised the ValueError of the type check
C14_Witness ==
    /\ tok.pc = "reset_decoded"
    /\ TokVerifies
    /\ "type" \notin DOMAIN Get(tok.token).payload
    /\ Get(tok.token).payload.sub = UuidStr(1)
    /\ Get(tok.result).exception = "ValueError"

\* the requests of the operations behind get_current_user
Protected(r) == req[r].op \in {"get_profile", "update_profile"}

\* the token is a compact token signed with the service's secret, and its
\* exp claim, if any, is not in the past at the given instant
TokenVerifies(t, clock) ==
    /\ t.segments = 3
    /\ t.alg = JWT_ALGORITHM
    /\ t.sig = [key |-> AUTH_SECRET, alg |-> JWT_ALGORITHM, msg |-> t.payload]
    /\ ("exp" \in DOMAIN t.payload => t.payload.exp >= clock)

\* C11: a protected operation gets a subject, reads or writes the store and
\* answers other than 401 only if the presented token is present,
\* well-formed, signed with the service's secret, unexpired and has a sub;
\* the subject is then the sub of that verified token.
C11_OnlyValidatedSubjects ==
    \A r \in Requests :
        Protected(r) =>
            IF /\ ~IsNone(req[r].credentials)
               /\ TokenVerifies(Get(req[r].credentials), req[r].validated_at)
               /\ "sub" \in DOMAIN Get(req[r].credentials).payload
            THEN req[r].subject = Some(Get(req[r].credentials).payload.sub)
            ELSE /\ IsNone(req[r].subject) /\ IsNone(req[r].current_user)
                 /\ Done(r) /\ Resp(r).status = 401
                 /\ IsNone(Resp(r).token) /\ IsNone(Resp(r).user)
                 /\ req[r].writes = 0
                 /\ IsNone(req[r].seen_user) /\ IsNone(req[r].seen_profile)

\* a token signed with another secret that names an existing account was
\* presented, and refused
C11_Witness ==
    \E r \in Requests :
        /\ Protected(r) /\ Done(r)
        /\ req[r].credentials = Some(ForgedToken)
        /\ \E u \in users : UuidStr(u.id) = ExtractUserIdFromToken(ForgedToken)
        /\ Resp(r).status = 401

\* the two fixed messages of an authentication failure, as the service
\* capitalises them
AuthFailureMessages == {"Invalid email or password", "Invalid or expired token"}

\* C12: every authentication failure a client sees (a 401 of signin or of a
\* protected operation) carries one of the two fixed messages, with nothing
\* appended.
C12_TwoFixedMessages ==
    \A r \in Requests :
        (Done(r) /\ Resp(r).status = 401) => Resp(r).detail \in AuthFailureMessages

\* the update_profile requests that passed get_current_user and validation
Updating(r) ==
    /\ req[r].op = "update_profile"
    /\ ~IsNone(req[r].subject)
    /\ ~(Done(r) /\ Resp(r).status = 422)

\* the fields of a body that are present and not null
FieldsOf(body) == { f \in DOMAIN body : body[f] # None }

Provided(body, f) == body[f][1]

\* the value of a field in a stored profile row, as a response shows it
Shown(row, f) == IF f = "coding_languages" THEN JsonLoads(row[f]) ELSE row[f]

TokenFields == {"gpu_type", "ram_capacity", "coding_languages", "robotics_experience"}

\* C16: a successful update_profile with the fields F returns a profile and a
\* token in which each field of F has the provided value and every other
\* profile field the value stored before the update; the email and the name
\* in both are those of the account, which the update leaves as they were.
C16_UpdateSetsExactlyF ==
    \A r \in Requests :
        (Updating(r) /\ Done(r) /\ Resp(r).status = 200) =>
            LET body == Payload(r)
                before == Get(req[r].before_profile)
                user == Get(Resp(r).user)
                claims == Get(Resp(r).token).payload
            IN  /\ \A f \in FieldsOf(body) :
                      /\ user[f] = Provided(body, f)
                      /\ f \in TokenFields => claims[f] = Provided(body, f)
                /\ \A f \in UpdateFields \ FieldsOf(body) :
                      /\ user[f] = Shown(before, f)
                      /\ f \in TokenFields => claims[f] = Shown(before, f)
                /\ \E u \in users :
                      /\ Some(UuidStr(u.id)) = req[r].subject
                      /\ u.email = Get(req[r].seen_user).email
                      /\ u.name = Get(req[r].seen_user).name
                      /\ user.email = u.email /\ claims.email = u.email
                      /\ user.name = u.name /\ claims.name = u.name
                /\ claims.sub = Get(req[r].subject)

\* an update of gpu_type alone has succeeded on a profile that had another
\* gpu_type
C16_Witness ==
    \E r \in Requests :
        /\ Updating(r) /\ Done(r) /\ Resp(r).status = 200
        /\ FieldsOf(Payload(r)) = {"gpu_type"}
        /\ Get(req[r].before_profile).gpu_type # Get(Resp(r).user).gpu_type

\* C17: when no update_profile call on an account is in progress, the token
\* returned by the call on it that completed last carries the profile
\* claims of the profile row stored for the account.
C17_LastTokenMatchesStore ==
    \A r \in Requests :
        ( /\ Updating(r) /\ Done(r) /\ Resp(r).status = 200
          /\ ~req[r].overtaken
          /\ \A o \in Requests :
                (Updating(o) /\ req[o].subject = req[r].subject) => Done(o) )
        => \A p \in profiles :
              Some(UuidStr(p.user_id)) = req[r].subject =>
                  \A f \in TokenFields : Get(Resp(r).token).payload[f] = Shown(p, f)

\* a token a client holds is accepted by a protected operation at any
\* instant that is not after its exp claim
HeldTokensAccepted ==
    \A r \in Requests :
        ( /\ Protected(r)
          /\ ~IsNone(req[r].credentials)
          /\ Get(req[r].credentials) \in held
          /\ Get(req[r].credentials).payload.exp >= req[r].validated_at )
        => req[r].subject = Some(Get(req[r].credentials).payload.sub)

\* a signout step leaves the tables and the tokens held as they are
SignoutKeepsStore ==
    (\E r \in Requests : Signout(r)) =>
        UNCHANGED <<users, profiles, activity, next_id, held, reset_counter>>

\* C18: there is no server-side revocation: a token issued earlier is
\* accepted by a protected operation at every time before its own expiry,
\* whatever update_profile, signin or signout has happened since, and
\* signout changes no server-side state.
C18_NoRevocation == []HeldTokensAccepted /\ [][SignoutKeepsStore]_vars

\* an update_profile was accepted with a token whose gpu_type claim was
\* already out of date, the account having been updated since its issue
C18_Witness ==
    \E r \in Requests :
        /\ Updating(r) /\ Done(r) /\ Resp(r).status = 200
        /\ Get(req[r].credentials) \in held
        /\ Get(req[r].before_profile).gpu_type # Get(req[r].credentials).payload.gpu_type

StoredEmailsLowerCase ==
    \A u \in users : \A i \in DOMAIN u.email : u.email[i] \notin UpperCase

\* a step changes the email of no account
EmailsKept ==
    \A u \in users : \A v \in users' : v.id = u.id => v.email = u.email

\* C20: the email of an account is never changed after signup, by any
\* sequence of signin, signout, get-profile and update-profile operations,
\* and every stored email is in lower case.
C20_EmailPermanent == []StoredEmailsLowerCase /\ [][EmailsKept]_vars

\* an account that signed up with an upper-case letter in its email has
\* signed in and updated its profile
C20_Witness ==
    \E u \in users :
        /\ u.email = <<"a", "@", "x">>
        /\ ~IsNone(u.last_login)
        /\ \E p \in profiles : p.user_id = u.id /\ p.gpu_type = "NVIDIA RTX 4080/4090"

\* C21: in every state of the store, every stored profile has a
\* coding_languages list of at least one entry: signup refuses an empty list
\* and update_profile never replaces the list with an empty one.
C21_LanguagesNeverEmpty ==
    /\ \A p \in profiles : Len(JsonLoads(p.coding_languages)) >= 1
    /\ \A r \in Requests :
          ( \/ /\ req[r].op = "signup"
               /\ Payload(r).coding_languages = <<>>
            \/ /\ req[r].op = "update_profile"
               /\ ~IsNone(req[r].subject)
               /\ Payload(r).coding_languages = Some(<<>>) )
          => /\ Done(r) /\ Resp(r).status = 422
             /\ req[r].writes = 0 /\ ~req[r].inserted

\* a signup and an authenticated update_profile, each with an empty list,
\* were both refused while a profile with two languages is stored
C21_Witness ==
    /\ \E p \in profiles : Len(JsonLoads(p.coding_languages)) = 2
    /\ \E r1, r2 \in Requests :
          /\ Done(r1) /\ req[r1].op = "signup"
          /\ Payload(r1).coding_languages = <<>>
          /\ Resp(r1).status = 422
          /\ Done(r2) /\ req[r2].op = "update_profile"
          /\ ~IsNone(req[r2].subject)
          /\ Payload(r2).coding_languages = Some(<<>>)
          /\ Resp(r2).status = 422

\* the handler of the request has started and not yet returned or raised
InProgress(r) == req[r].pc \notin {"idle", "done"}

\* a bcrypt call of the request is running
HashInFlight(r) == req[r].hash_on # ""

\* the request waits for the transaction of another signup on the unique
\* index of users.email
WaitsOnIndex(r) ==
    /\ req[r].pc = "signup_insert_user"
    /\ InsertWaits(r, Lower(SignupData(r).email))

\* C22: while the hash or verify of one request is in flight, every other
\* request in progress can take its next step and a new request can be
\* started: no request waits on another request's hash.
C22_HashDoesNotBlock ==
    \A r \in Requests :
        HashInFlight(r) =>
            \A o \in Requests \ {r} :
                /\ (InProgress(o) /\ ~HashInFlight(o) /\ ~WaitsOnIndex(o))
                        => ENABLED PoolStep(o)
                /\ (InProgress(o) /\ HashInFlight(o)) => LoopRuns(o)
                /\ (req[o].op = "idle" /\ arrived < MaxReq
                        /\ \A x \in Requests : x < o => req[x].op # "idle")
                        => ENABLED PoolStart(o)

\* a verify of one request is in flight, and a signin that had not arrived
\* when it was handed to the executor has run to its successful end
C22_Witness ==
    \E r \in Requests : \E o \in Requests \ {r} :
        /\ req[r].pc = "signin_verifying"
        /\ req[r].hash_on = "executor"
        /\ Get(req[r].peers)[o] = "idle"
        /\ Done(o) /\ req[o].op = "signin" /\ Resp(o).status = 200
        /\ req[o].hashes = 0 /\ Get(req[o].verify_call).bcrypt_calls = 1

\* C23: signin is atomic with respect to the store: a successful signin has
\* set the account's last-login and appended exactly one 'signin' activity
\* event, and a signin that returns any error has left the account's
\* last-login as it was.
C23_SigninAtomic ==
    \A r \in Requests :
        (Done(r) /\ req[r].op = "signin") =>
            IF Resp(r).status = 200
            THEN req[r].touched /\ req[r].writes = 2
            ELSE ~req[r].touched

\* C24: a request holds a store connection exactly while its handler is in
\* progress: every signup, signin, get-profile and update-profile request
\* that acquired a connection has closed it when it finishes, on every exit
\* path, and when all requests have finished no connection is open.
C24_ConnectionsClosed ==
    /\ \A r \in Requests : req[r].conn <=> InProgress(r)
    /\ (\A r \in Requests : ~InProgress(r)) => \A r \in Requests : ~req[r].conn

\* two requests that had acquired a connection have finished, one by an
\* unexpected exception of a store call (500) and one by an HTTP error its
\* handler raised, and no connection is open
C24_Witness ==
    /\ \A r \in Requests : ~req[r].conn
    /\ \E r1, r2 \in Requests :
          /\ Done(r1) /\ req[r1].faulted /\ Resp(r1).status = 500
          /\ Done(r2) /\ ~req[r2].faulted
          /\ \/ req[r2].op = "signin" /\ Resp(r2).status = 401
             \/ req[r2].op = "signup" /\ Resp(r2).status = 409
             \/ req[r2].op = "update_profile" /\ Resp(r2).status = 400

\* C25: whenever an operation finds the profile missing for an otherwise
\* valid account (signin after the credentials verified, get-profile or
\* update-profile with a validated token), it ends with a generic server
\* error (5xx), never with a not-found result, and issues no token.
C25_MissingProfileIsServerError ==
    \A r \in Requests :
        (Done(r) /\ req[r].profile_missing) =>
            /\ Resp(r).status >= 500
            /\ IsNone(Resp(r).token)

\* C28: an operation that starts when the active flag of its account is
\* false issues no token: signin, get-profile and update-profile all refuse
\* the account.
C28_NoTokenAfterDeactivation ==
    \A r \in Requests :
        (Done(r) /\ req[r].inactive) =>
            /\ IsNone(Resp(r).token)
            /\ Resp(r).status >= 400

\* the active accounts stored under the email of a signin, compared without
\* regard to letter case
AccountsOf(r) == { u \in users : u.is_active /\ Lower(u.email) = Lower(Payload(r).email) }

\* C26: a signin with the email of an active account in any letter case and
\* the password the account signed up with succeeds, unless a store call
\* fails, and returns a token for that account whose profile claims are
\* those of the stored profile; a signin whose password is not the one the
\* stored digest was computed from never succeeds.
C26_SigninAfterSignup ==
    \A r \in Requests :
        (Done(r) /\ req[r].op = "signin") =>
            /\ ( /\ req[r].existed /\ ~req[r].faulted
                 /\ \E u \in AccountsOf(r) : Preimage(u.password_hash) = Payload(r).password )
               => Resp(r).status = 200
            /\ Resp(r).status = 200 =>
                  \E u \in AccountsOf(r) :
                      /\ Preimage(u.password_hash) = Payload(r).password
                      /\ LET claims == Get(Resp(r).token).payload
                         IN  /\ claims.sub = UuidStr(u.id)
                             /\ claims.email = u.email /\ claims.name = u.name
                             /\ \E p \in profiles :
                                   /\ p.user_id = u.id
                                   /\ claims.gpu_type = p.gpu_type
                                   /\ claims.ram_capacity = p.ram_capacity
                                   /\ JsonDumps(claims.coding_languages) = p.coding_languages
                                   /\ claims.robotics_experience = p.robotics_experience
            /\ (\A u \in AccountsOf(r) : Preimage(u.password_hash) # Payload(r).password)
               => /\ Resp(r).status >= 400
                  /\ IsNone(Resp(r).token)

\* the account 'a@x' has signed in with its email typed in upper case and
\* its password, and a signin to it with another password was refused
C26_Witness ==
    \E r1, r2 \in Requests :
        /\ Done(r1) /\ req[r1].op = "signin" /\ Resp(r1).status = 200
        /\ Payload(r1).email = <<"A", "@", "x">>
        /\ Get(Resp(r1).token).payload.email = <<"a", "@", "x">>
        /\ Done(r2) /\ req[r2].op = "signin" /\ Resp(r2).status = 401
        /\ req[r2].existed
        /\ Payload(r2).password = DecoyPassword

\* the token presented is a reset token of create_reset_token
IsResetToken(t) == "type" \in DOMAIN t.payload /\ t.payload.type = "password_reset"

\* C27: a reset token is never accepted as an access token: decode_token and
\* get_current_user reject it.
C27_ResetTokenNotAccess ==
    (tok.pc \in {"decoded", "authenticated"} /\ IsResetToken(Get(tok.token)))
        => ~Get(tok.result).ok

\* the token and the profile a successful update_profile returns are those
\* of the subject of the token it was called with
UpdateAnswersSubject ==
    \A r \in Requests :
        (Updating(r) /\ Done(r) /\ Resp(r).status = 200) =>
            /\ Get(Resp(r).token).payload.sub = Get(req[r].subject)
            /\ Get(Resp(r).user).id = Get(req[r].subject)
            /\ \E u \in users : /\ UuidStr(u.id) = Get(req[r].subject)
                                 /\ Get(Resp(r).token).payload.email = u.email

\* a step of an update_profile handler leaves the accounts table and the
\* profile rows of the other accounts as they are
UpdateWritesOwnRow ==
    \A r \in Requests :
        (Updating(r) /\ InProgress(r) /\ req'[r] # req[r]) =>
            /\ users' = users
            /\ \A p \in profiles :
                  Some(UuidStr(p.user_id)) # req[r].subject => p \in profiles'
            /\ \A p \in profiles' :
                  Some(UuidStr(p.user_id)) # req[r].subject => p \in profiles
            /\ Cardinality(profiles') = Cardinality(profiles)

\* C29: update_profile called with a validated token of subject S writes
\* only the profile row of S: the profile of every other account and the
\* whole accounts table are unchanged, and the token it returns has sub = S.
C29_UpdateWritesOnlySubject == []UpdateAnswersSubject /\ [][UpdateWritesOwnRow]_vars

\* one of two accounts has updated its gpu_type; the other account's profile
\* still has the gpu_type it signed up with
C29_Witness ==
    \E r \in Requests : \E p1, p2 \in profiles :
        /\ Updating(r) /\ Done(r) /\ Resp(r).status = 200
        /\ Some(UuidStr(p1.user_id)) = req[r].subject
        /\ p1.gpu_type = "NVIDIA RTX 4080/4090"
        /\ p2.user_id # p1.user_id
        /\ p2.gpu_type \in {"NVIDIA RTX 4070 Ti", "NVIDIA RTX 3060"}
        /\ p2.updated_at = p2.created_at

\* a signin whose credentials did not verify
FailedSignin(r) ==
    /\ Done(r) /\ req[r].op = "signin"
    /\ ~IsNone(req[r].verify_call)
    /\ ~Get(req[r].verify_call).is_valid

\* C30: a failed signin changes no account or profile row; it appends
\* exactly one 'failed_signin' activity event when it found an active
\* account for the email and nothing when it found none; in both cases the
\* client receives the same 401, also when the write of the activity event
\* itself fails.
C30_FailedSigninSame401 ==
    \A r \in Requests :
        FailedSignin(r) =>
            /\ ~req[r].touched
            /\ IsNone(Get(req[r].verify_call).user_hash) => req[r].writes = 0
            /\ (~IsNone(Get(req[r].verify_call).user_hash) /\ ~req[r].faulted)
                  => req[r].writes = 1
            /\ Resp(r) = ErrorResponse(401, "Invalid email or password")

====
